---- MODULE Spec2Model ----
(***************************************************************************)
(* Model of cpplot (src/src/cpplot/cpplot.hpp): the embedded-runtime gate  *)
(* (detail::Python, pycall), the reference-counted handle                  *)
(* (detail::PyObjectWrapper), the keyword-argument builder                 *)
(* (detail::as_pyobject) and the range conversion (detail::as_pylist).     *)
(***************************************************************************)
EXTENDS Integers, Sequences, FiniteSets, TLC

\* ------------------------------------------------------------------ bounds
NumObjs == 2          \* foreign objects the handles may point to
MaxHandles == 2       \* handle variables of the host program
MaxBase == 1          \* references the foreign runtime itself keeps on an object
MaxReleased == 2      \* raw references handed out by release() and not yet re-wrapped

Objs == 1..NumObjs
NULL == 0             \* nullptr
DEAD == -1            \* a handle variable that is not (or no longer) constructed
NONE == -2            \* "no such operand" in the operation log
TMP == 0              \* the temporary PyObjectWrapper{other} of copy assignment
Handles == 1..MaxHandles
Slots == 0..MaxHandles

VARIABLES
    rt,        \* embedded runtime: "uninit" (static not yet constructed), "init", "finalized"
    inits,     \* number of Py_Initialize() calls
    finals,    \* number of Py_Finalize() calls
    called,    \* some pycall has been made
    rc,        \* reference count of every foreign object
    base,      \* references held by the foreign runtime itself (the baseline)
    h,         \* _p of every handle variable (DEAD: not constructed)
    released,  \* per object: references handed out by release(), not yet re-wrapped
    lateDec,   \* a Py_DECREF was executed while the runtime was not initialized
    foreignOutside, \* a gated foreign action ran while the runtime was not initialized
    term,      \* the process was ended (std::terminate after an exception left a destructor)
    last,      \* log of the last handle operation
    inp,       \* the arguments and the foreign runtime's answers of one library call
    pc,        \* "ready": the call of inp is about to be made, "done": it was made
    cv,        \* what the call did: data handed to the runtime, result, error reports
    open,      \* the numbers of the figures open in pyplot
    figs,      \* the Figure objects of the host program
    flog       \* log of the last operation on a figure

hvars == <<rt, inits, finals, called, rc, base, h, released, lateDec, foreignOutside, term, last>>

fvars == <<open, figs, flog>>

vars == <<rt, inits, finals, called, rc, base, h, released, lateDec, foreignOutside, term, last,
          inp, pc, cv, open, figs, flog>>

Zero == [o \in Objs |-> 0]

\* ------------------------------------------------------- values
\* A foreign (Python) value: its type t and its payload, a number n, a text s
\* or the items l.  A dict keeps its key/value pairs in insertion order.
V(t, n, s, l) == [t |-> t, n |-> n, s |-> s, l |-> l]

PyNULL == V("NULL", 0, "", <<>>)          \* the null PyObject*

\* A host (C++) value: arithmetic kinds carry n, texts s, ranges their elements l
Host(kind, n, s, l) == [kind |-> kind, n |-> n, s |-> s, l |-> l]

\* An argument as it travels through C varargs: its C type and its value
CArg(ctype, n, s, o) == [ctype |-> ctype, n |-> n, s |-> s, o |-> o]

\* ------------------------------------------------------- machine state
\* The operations are state transformers over a record, so that one action
\* can run a whole C++ function including the calls it makes.
Cur ==
    [rt |-> rt, inits |-> inits, finals |-> finals, called |-> called,
     rc |-> rc, h |-> h, lateDec |-> lateDec, foreignOutside |-> foreignOutside,
     term |-> term,
     incs |-> Zero, decs |-> Zero, threw |-> FALSE, ret |-> NONE,
     out |-> PyNULL, res |-> FALSE, prints |-> 0, crashed |-> FALSE,
     fmt |-> <<>>, fc |-> "", cargs |-> <<>>, calls |-> <<>>,
     image |-> V("nullopt", 0, "", <<>>), lists |-> <<>>, notified |-> 0,
     acquired |-> 0, stolen |-> 0, err |-> FALSE]

\* ------------------------------------------------------- CPython primitives
Py_IsInitialized(S) == S.rt = "init"

Py_Initialize(S) == [S EXCEPT !.rt = "init", !.inits = @ + 1]

Py_Finalize(S) == [S EXCEPT !.rt = "finalized", !.finals = @ + 1]

Py_INCREF(S, o) ==
    [S EXCEPT !.rc[o] = @ + 1, !.incs[o] = @ + 1,
              !.foreignOutside = @ \/ S.rt # "init"]

Py_DECREF(S, o) ==
    [S EXCEPT !.rc[o] = @ - 1, !.decs[o] = @ + 1,
              !.lateDec = @ \/ S.rt # "init",
              !.foreignOutside = @ \/ S.rt # "init"]

\* a foreign constructor (PyFloat_FromDouble, PyLong_FromLong, ...): the
\* runtime returns a new reference to object o
Py_New(S, o) ==
    [S EXCEPT !.rc[o] = @ + 1, !.ret = o,
              !.foreignOutside = @ \/ S.rt # "init"]

\* ------------------------------------------------------- detail::Python
Throw(S) == [S EXCEPT !.threw = TRUE]

\* explicit Python(): Py_Initialize(); throws when the runtime is not up afterwards
Python_ctor(S) ==
    LET S1 == Py_Initialize(S)
    IN  IF ~Py_IsInitialized(S1) THEN Throw(S1) ELSE S1

\* ~Python()
Python_dtor(S) == IF Py_IsInitialized(S) THEN Py_Finalize(S) ELSE S

\* static const Python& instance(): the function-local static is constructed
\* by the first call only
instance_every_call(S) == Python_ctor(S)
instance(S) == IF S.rt = "uninit" THEN Python_ctor(S) ELSE S

\* Python::operator()(F&& f): the state in which f() starts, or the state in
\* which the exception leaves (threw) and f never runs
Python_call_unguarded(S) == S
Python_call(S) == IF ~Py_IsInitialized(S) THEN Throw(S) ELSE S

\* pycall(f): a caller continues with f's body iff the result has not thrown
pycall(S) ==
    LET S1 == instance([S EXCEPT !.called = TRUE])
    IN  IF S1.threw THEN S1 ELSE Python_call(S1)

\* ------------------------------------------------------- PyObjectWrapper
swap_pyobjects(S, a, b) == [S EXCEPT !.h[a] = S.h[b], !.h[b] = S.h[a]]

\* PyObjectWrapper(PyObject* p)
CtorOwned(S, x, p) == [S EXCEPT !.h[x] = p]

\* PyObjectWrapper(PyObject* p, WeakReference):
\* _p{p} { pycall([&] () { if (_p) Py_INCREF(_p); }); }
\* when pycall throws, the object is never constructed
CtorWeak_noinc(S, x, p) == [S EXCEPT !.h[x] = p]
CtorWeak(S, x, p) ==
    LET S1 == pycall([S EXCEPT !.h[x] = p])
    IN  IF S1.threw THEN [S1 EXCEPT !.h[x] = DEAD]
        ELSE IF S1.h[x] # NULL THEN Py_INCREF(S1, S1.h[x]) ELSE S1

\* PyObjectWrapper(const PyObjectWrapper& other)
CopyCtor(S, x, other) == CtorWeak(S, x, S.h[other])

\* PyObjectWrapper(PyObjectWrapper&& other)
MoveCtor_copying(S, x, other) == CtorOwned(S, x, S.h[other])
MoveCtor(S, x, other) == swap_pyobjects(CtorOwned(S, x, NULL), x, other)

\* ~PyObjectWrapper() { pycall([&] () { if (_p) Py_DECREF(_p); }); }
\* the destructor is noexcept: an exception leaving pycall ends the process
\* in std::terminate
Dtor(S, x) ==
    LET S1 == pycall(S)
    IN  IF S1.threw THEN [S1 EXCEPT !.term = TRUE]
        ELSE [(IF S1.h[x] # NULL THEN Py_DECREF(S1, S1.h[x]) ELSE S1) EXCEPT !.h[x] = DEAD]

\* operator=(PyObjectWrapper&& other)
MoveAssign(S, x, other) == swap_pyobjects(S, x, other)

\* operator=(const PyObjectWrapper& other): *this = PyObjectWrapper{other};
\* the temporary dies at the end of the full expression
CopyAssign_leaky(S, x, other) ==
    LET S1 == CopyCtor(S, TMP, other)
    IN  IF S1.threw THEN S1 ELSE [MoveAssign(S1, x, TMP) EXCEPT !.h[TMP] = DEAD]
CopyAssign(S, x, other) ==
    LET S1 == CopyCtor(S, TMP, other)
    IN  IF S1.threw THEN S1 ELSE Dtor(MoveAssign(S1, x, TMP), TMP)

\* PyObject* release()
release_keeping(S, x) == [S EXCEPT !.ret = S.h[x]]
release(S, x) == [S EXCEPT !.ret = S.h[x], !.h[x] = NULL]

\* operator bool() const
AsBool(p) == p # NULL

\* PyObjectWrapper{pycall([&] { return <foreign constructor>; })}, the way
\* value_to_pyobject wraps a new reference
WrapNew(S, x, o) ==
    LET S1 == pycall(S)
    IN  IF S1.threw THEN S1
        ELSE LET S2 == Py_New(S1, o) IN CtorOwned(S2, x, S2.ret)

\* ------------------------------------------------------- CPython values
PyFloat_FromDouble(d) == V("float", d, "", <<>>)

PyBool(b) == V("bool", b, "", <<>>)       \* Py_True (1) / Py_False (0)

PyLong_FromLong(i) == V("int", i, "", <<>>)

PyLong_FromSize_t(i) == V("int", i, "", <<>>)

PyUnicode_FromString(str) == V("str", 0, str, <<>>)

\* a list of n empty slots
PyList_New(n) == V("list", 0, "", [i \in 1..n |-> PyNULL])

\* slot i (from 0) takes the item; an index outside the list sets nothing
PyList_SetItem(list, i, item) ==
    IF i >= 0 /\ i < Len(list.l) THEN [list EXCEPT !.l[i + 1] = item] ELSE list

\* S.err: the error indicator of the foreign runtime.  A CPython function that
\* returns null has set it
failed(S) == [S EXCEPT !.err = TRUE]

\* a result nobody tests: what its failure leaves behind stays
unchecked(S, result) == IF result = PyNULL THEN failed(S) ELSE S

\* prints the pending error and clears the indicator
PyErr_Print(S) == [S EXCEPT !.prints = @ + 1, !.err = FALSE]

\* PyObject_GetAttrString(obj, name): found tells whether the runtime finds it
PyObject_GetAttrString(name, found) ==
    IF found THEN V("callable", 0, name, <<>>) ELSE PyNULL

\* a dict's items are pairs <<key, value>>; a key that is present is overwritten
DictItem(k, v) == V("item", 0, "", <<k, v>>)

PyDict_SetItem(items, k, v) ==
    IF \E i \in 1..Len(items) : items[i].l[1] = k
    THEN [i \in 1..Len(items) |-> IF items[i].l[1] = k THEN DictItem(k, v) ELSE items[i]]
    ELSE Append(items, DictItem(k, v))

PyDict_GetItem(d, k) ==
    IF \E i \in 1..Len(d.l) : d.l[i].l[1] = k
    THEN (CHOOSE it \in {d.l[i] : i \in 1..Len(d.l)} : it.l[1] = k).l[2]
    ELSE PyNULL

EmptyDict == V("dict", 0, "", <<>>)

\* what a type-mismatched read of the varargs may leave behind
Garbage == V("garbage", 0, "", <<>>)

\* PyObject_Call(callable, args, kwargs): a null kwargs is a call without
\* keyword arguments; accepts tells whether the callee returns a result
\* A null callable or a null argument tuple is dereferenced by the call: the
\* process crashes in it.  A call made while the error indicator is set
\* gives no result ("returned a result with an exception set").
PyObject_Call_result(S, callable, args, accepts) ==
    IF accepts /\ callable # PyNULL /\ args # PyNULL /\ ~S.err
    THEN V("result", 0, callable.s, <<>>) ELSE PyNULL

PyObject_Call(S, callable, args, kw, accepts) ==
    [S EXCEPT !.calls = Append(@, [f |-> callable, args |-> args, kw |-> kw,
                                   given |-> IF kw = PyNULL THEN EmptyDict ELSE kw,
                                   out |-> PyObject_Call_result(S, callable, args, accepts)]),
              !.out = PyObject_Call_result(S, callable, args, accepts),
              !.err = @ \/ PyObject_Call_result(S, callable, args, accepts) = PyNULL,
              !.crashed = @ \/ callable = PyNULL \/ args = PyNULL]

\* --- Py_BuildValue(format, ...)
\* the format units in order; braces, colons and commas only structure them
FormatUnits(fmt) == SelectSeq(fmt, LAMBDA c : c \notin {"{", "}", ":", ","})

\* one unit consumes one vararg; reading it as another C type than the one
\* passed is undefined
ConvertUnit(c, a) ==
    CASE c = "s" -> IF a.ctype = "charp"
                    THEN [st |-> "ok", val |-> PyUnicode_FromString(a.s)]
                    ELSE [st |-> "ub", val |-> PyNULL]
      [] c = "i" -> IF a.ctype = "int"
                    THEN [st |-> "ok", val |-> PyLong_FromLong(a.n)]
                    ELSE [st |-> "ub", val |-> PyNULL]
      [] c = "f" -> IF a.ctype = "double"
                    THEN [st |-> "ok", val |-> PyFloat_FromDouble(a.n)]
                    ELSE [st |-> "ub", val |-> PyNULL]
      [] c = "O" -> IF a.ctype = "pyobj"
                    THEN [st |-> IF a.o = PyNULL THEN "null" ELSE "ok", val |-> a.o]
                    ELSE [st |-> "ub", val |-> PyNULL]

RECURSIVE MkDict(_, _)
MkDict(vals, items) ==
    IF Len(vals) < 2 THEN V("dict", 0, "", items)
    ELSE MkDict(SubSeq(vals, 3, Len(vals)), PyDict_SetItem(items, vals[1], vals[2]))

\* ok: the runtime can allocate the result; ub: what the build does when the
\* varargs do not have the types the format names ("garbage", "null", "crash")
Py_BuildValue(fmt, cargs, ok, ub) ==
    LET units == FormatUnits(fmt)
        n == Len(units)
        conv == [i \in 1..n |-> IF i <= Len(cargs) THEN ConvertUnit(units[i], cargs[i])
                                ELSE [st |-> "ub", val |-> PyNULL]]
        vals == [i \in 1..n |-> conv[i].val]
    IN  IF \E i \in 1..n : conv[i].st = "ub"
        THEN CASE ub = "crash" -> [st |-> "crash", val |-> PyNULL]
               [] ub = "null" -> [st |-> "null", val |-> PyNULL]
               [] OTHER -> [st |-> "ok", val |-> Garbage]
        ELSE IF ~ok \/ \E i \in 1..n : conv[i].st = "null"
        THEN [st |-> "null", val |-> PyNULL]
        ELSE IF fmt # <<>> /\ fmt[1] = "{"
        THEN [st |-> "ok", val |-> MkDict(vals, <<>>)]
        ELSE IF n = 1 THEN [st |-> "ok", val |-> vals[1]]
        ELSE [st |-> "ok", val |-> V("tuple", 0, "", vals)]

\* ------------------------------------------------------- detail::check
check_not_printing(S, result) == IF result = PyNULL THEN failed(S) ELSE S

\* result = f(); if (!result) PyErr_Print(); return result;
check(S, result) == IF result = PyNULL THEN PyErr_Print(failed(S)) ELSE S

\* ------------------------------------------------------- conversions
\* An operation reached while an exception is in flight (threw) or after the
\* process has crashed does not run: the state passes through it.
Gone(S) == S.threw \/ S.crashed

\* return v;
Return(S, v) == IF Gone(S) THEN S ELSE [S EXCEPT !.out = v]

\* return "<format unit>";
ReturnText(S, c) == IF Gone(S) THEN S ELSE [S EXCEPT !.fc = c]

\* the OverloadSet of value_to_pyobject
value_overload(e) ==
    CASE e.kind = "float" -> PyFloat_FromDouble(e.n)
      [] e.kind = "bool" -> PyBool(e.n)
      [] e.kind = "int" -> PyLong_FromLong(e.n)
      [] e.kind = "uint" -> PyLong_FromSize_t(e.n)
      [] e.kind = "string" -> PyUnicode_FromString(e.s)

\* PyFloat_FromDouble, PyLong_FromLong, PyLong_FromSize_t and
\* PyUnicode_FromString return a new reference; Py_True and Py_False are the
\* addresses of the two singletons, no reference is taken
returns_new_reference(e) == e.kind \in {"float", "int", "uint", "string"}

\* S.acquired: the references the conversions obtained for their handles
new_reference(S, e) ==
    IF Gone(S) \/ ~returns_new_reference(e) THEN S ELSE [S EXCEPT !.acquired = @ + 1]

value_to_pyobject(S, e) ==
    IF Gone(S) THEN S ELSE Return(new_reference(pycall(S), e), value_overload(e))

\* PyList_SetItem / PyList_SET_ITEM take over ("steal") the reference to the
\* item they are given.  S.stolen: the references given away like that
steal_reference(S) == [S EXCEPT !.stolen = @ + 1]

\* for (const auto& value : range) PyList_SetItem(list, i++, value_to_pyobject(value).release());
RECURSIVE as_pylist_loop(_, _, _, _)
\* S holds the converted element in out
as_pylist_store_fixed_index(S, list, rest, i) ==
    IF Gone(S) THEN S
    ELSE as_pylist_loop(steal_reference(S), PyList_SetItem(list, i, S.out), rest, i)
as_pylist_store(S, list, rest, i) ==
    IF Gone(S) THEN S
    ELSE as_pylist_loop(steal_reference(S), PyList_SetItem(list, i, S.out), rest, i + 1)

as_pylist_loop(S, list, rest, i) ==
    IF Gone(S) THEN S
    ELSE IF rest = <<>> THEN Return(S, list)
    ELSE as_pylist_store(value_to_pyobject(S, Head(rest)), list, Tail(rest), i)

\* S.lists: the reference counts of the lists as_pylist made during the call,
\* in the order they were made (references the foreign runtime keeps for
\* itself are not counted)
IncRefLists(S, lo, hi) ==
    [S EXCEPT !.lists = [i \in DOMAIN @ |-> IF lo <= i /\ i <= hi THEN @[i] + 1 ELSE @[i]]]

DecRefLists(S, lo, hi) ==
    [S EXCEPT !.lists = [i \in DOMAIN @ |-> IF lo <= i /\ i <= hi THEN @[i] - 1 ELSE @[i]]]

\* PyList_New returns a new reference, which the PyObjectWrapper list owns
new_list_reference(S) == IF Gone(S) THEN S ELSE [S EXCEPT !.lists = Append(@, 1)]

\* as_pylist(range): PyList_New(std::size(range)), then the loop
as_pylist(S, range) ==
    IF Gone(S) THEN S
    ELSE as_pylist_loop(new_list_reference(pycall(S)), PyList_New(Len(range.l)), range.l, 0)

\* the varargs that are lists as_pylist(r).release() handed out
ReleasedLists(cargs) == Cardinality({i \in DOMAIN cargs : cargs[i].ctype = "pyobj"})

\* the kwargs whose value is a range
RangeValued(kwargs) == Cardinality({i \in DOMAIN kwargs : kwargs[i].value.kind = "range"})

\* Py_BuildValue's "O" takes a reference of its own to the object it is passed
build_references(S, r) ==
    IF r.st = "ok" /\ r.val # Garbage /\ r.val # PyNULL
    THEN IncRefLists(S, Len(S.lists) - ReleasedLists(S.cargs) + 1, Len(S.lists))
    ELSE S

\* ~PyObjectWrapper of the kwargs dictionary d: the dictionary goes and lets
\* go of its values, the lists S.lists[lo] onwards
dict_dtor(S, d, kwargs, lo) ==
    IF S.crashed \/ d.t # "dict" THEN S
    ELSE DecRefLists(S, lo, lo + RangeValued(kwargs) - 1)

\* ~PyObjectWrapper of the argument tuple p: the tuple goes and lets go of its
\* items, the lists S.lists[lo..hi]
tuple_dtor(S, p, lo, hi) ==
    IF S.crashed \/ p = PyNULL THEN S ELSE DecRefLists(S, lo, hi)

\* the OverloadSet of kwargs_format_for; bool is a std::integral
format_overload(v) ==
    CASE v.kind = "pyobj" -> "O"
      [] v.kind = "float" -> "f"
      [] v.kind \in {"int", "uint", "bool"} -> "i"
      [] v.kind \in {"cstr", "string"} -> "s"
      [] v.kind = "range" -> "O"

kwargs_format_for(S, v) ==
    IF Gone(S) THEN S ELSE ReturnText(pycall(S), format_overload(v))

\* ------------------------------------------------------- as_pyobject(Kwargs)
\* a keyword argument is [key |-> text, value |-> host value]
Kwarg(key, value) == [key |-> key, value |-> value]

\* format += ",s:" + <the unit kwargs_format_for returned>
format_append(S) ==
    IF Gone(S) THEN S ELSE [S EXCEPT !.fmt = @ \o <<",", "s", ":", S.fc>>]

\* (..., (format += ",s:" + kwargs_format_for(kwarg.value())))
RECURSIVE format_fold(_, _)
format_fold(S, kwargs) ==
    IF Gone(S) \/ kwargs = <<>> THEN S
    ELSE format_fold(format_append(kwargs_format_for(S, Head(kwargs).value)), Tail(kwargs))

\* format = "{" + format.substr(1) + "}"
format_braces(S) ==
    IF Gone(S) THEN S ELSE [S EXCEPT !.fmt = <<"{">> \o Tail(@) \o <<"}">>]

\* std::tuple_cat(std::tuple{kwarg.key().c_str()...}, std::tuple{kwarg.value()...})
tuple_cat(kwargs) ==
    [i \in 1..Len(kwargs) |-> Host("cstr", 0, kwargs[i].key, <<>>)]
    \o [i \in 1..Len(kwargs) |-> kwargs[i].value]

\* as_pylist(r).release() as the next argument
push_pyobject(S) ==
    IF Gone(S) THEN S ELSE [S EXCEPT !.cargs = Append(@, CArg("pyobj", 0, "", S.out))]

\* the OverloadSet as_buildvalue_arg: a std::string gives its c_str(), a
\* range the released list, anything else is passed as it is (a bool is
\* promoted to int on its way through the varargs)
as_buildvalue_arg(S, a) ==
    CASE a.kind \in {"string", "cstr"} ->
            [S EXCEPT !.cargs = Append(@, CArg("charp", 0, a.s, PyNULL))]
      [] a.kind = "range" -> push_pyobject(as_pylist(S, a))
      [] a.kind \in {"int", "bool"} ->
            [S EXCEPT !.cargs = Append(@, CArg("int", a.n, "", PyNULL))]
      [] a.kind = "uint" ->
            [S EXCEPT !.cargs = Append(@, CArg("size_t", a.n, "", PyNULL))]
      [] a.kind = "float" ->
            [S EXCEPT !.cargs = Append(@, CArg("double", a.n, "", PyNULL))]

\* as_buildvalue_arg(args)...
RECURSIVE buildvalue_args(_, _)
buildvalue_args(S, tuple) ==
    IF Gone(S) \/ tuple = <<>> THEN S
    ELSE buildvalue_args(as_buildvalue_arg(S, Head(tuple)), Tail(tuple))

\* result = check(r), r what Py_BuildValue did
build_result(S, r) ==
    IF r.st = "crash" THEN [S EXCEPT !.crashed = TRUE, !.out = PyNULL]
    ELSE [check(build_references(S, r), r.val) EXCEPT !.out = r.val]

\* check([&] () { return Py_BuildValue(format.c_str(), as_buildvalue_arg(args)...); })
apply_build(S, ok, ub) ==
    IF Gone(S) THEN S ELSE build_result(S, Py_BuildValue(S.fmt, S.cargs, ok, ub))

\* if (!result) throw std::runtime_error("Conversion to PyObject failed."); return result;
result_or_throw(S) ==
    IF Gone(S) THEN S ELSE IF S.out = PyNULL THEN Throw(S) ELSE S

\* as_pyobject(const Kwargs<T...>&)
as_pyobject(S, kwargs, ok, ub) ==
    IF Gone(S) THEN S
    ELSE IF Len(kwargs) = 0 THEN [S EXCEPT !.out = PyNULL]
    ELSE result_or_throw(apply_build(
            buildvalue_args(
                format_braces(format_fold(
                    [S EXCEPT !.fmt = <<>>, !.cargs = <<>>, !.out = PyNULL], kwargs)),
                tuple_cat(kwargs)),
            ok, ub))

\* ------------------------------------------------------- Axis::plot(x, y, kwargs)
\* env: the foreign runtime's answers: attr (the attribute is found), args
\* (the argument tuple can be built), ok (the kwargs dict can be built),
\* call (the callee returns a result), ub (see Py_BuildValue)

\* check on the pointer the last CPython call returned
check_out(S) == IF Gone(S) THEN S ELSE check(S, S.out)

plot_return_ignoring_lines(S) == [S EXCEPT !.res = TRUE]

\* if (lines) return true;  ...  PyErr_Print(); return false;
plot_return(S) ==
    IF S.out # PyNULL THEN [S EXCEPT !.res = TRUE]
    ELSE [PyErr_Print(S) EXCEPT !.res = FALSE]

\* lines = check(PyObject_Call(function, args, <kwargs dict in S.out>))
plot_lines(S, function, args, kwargs, env) ==
    IF Gone(S) THEN S
    ELSE plot_return(dict_dtor(check_out(PyObject_Call(S, function, args, S.out, env.call)),
                               S.out, kwargs, 3))

\* PyObject_Call(function, args, detail::as_pyobject(kwargs))
plot_call(S, function, args, kwargs, env) ==
    plot_lines(as_pyobject(S, kwargs, env.ok, env.ub), function, args, kwargs, env)

\* if (function && args) { ... } PyErr_Print(); return false;   b: the args build
plot_test_requiring_kwargs(S, function, b, kwargs, env) ==
    IF function # PyNULL /\ b.val # PyNULL /\ kwargs # <<>>
    THEN plot_call(check(S, b.val), function, b.val, kwargs, env)
    ELSE [PyErr_Print(check(S, b.val)) EXCEPT !.res = FALSE, !.out = PyNULL]
plot_test(S, function, b, kwargs, env) ==
    IF function # PyNULL /\ b.val # PyNULL
    THEN plot_call(check(S, b.val), function, b.val, kwargs, env)
    ELSE [PyErr_Print(check(S, b.val)) EXCEPT !.res = FALSE, !.out = PyNULL]

\* args = check(Py_BuildValue("OO", xl, <y list in S.out>))
\* b holds a reference to each of the two lists until args goes out of scope
plot_built(S, function, b, kwargs, env) ==
    tuple_dtor(plot_test(IF b.val = PyNULL THEN S ELSE IncRefLists(S, 1, 2),
                         function, b, kwargs, env),
               b.val, 1, 2)

plot_args(S, xl, function, kwargs, env) ==
    IF Gone(S) THEN S
    ELSE plot_built(S, function,
                    Py_BuildValue(<<"O", "O">>,
                                  <<CArg("pyobj", 0, "", xl), CArg("pyobj", 0, "", S.out)>>,
                                  env.args, env.ub),
                    kwargs, env)

\* as_pylist(y).release(), the x list being in S.out
plot_lists(S, y, function, kwargs, env) ==
    IF Gone(S) THEN S ELSE plot_args(as_pylist(S, y), S.out, function, kwargs, env)

\* the lambda handed to pycall: function = check(PyObject_GetAttrString(_axis, "plot")), ...
plot_lambda(S, x, y, function, kwargs, env) ==
    IF Gone(S) THEN S
    ELSE plot_lists(as_pylist(check(S, function), x), y, function, kwargs, env)

Axis_plot(S, x, y, kwargs, env) ==
    plot_lambda(pycall(S), x, y, PyObject_GetAttrString("plot", env.attr), kwargs, env)

\* ------------------------------------------------------- Axis::set_image(image)
\* std::optional<PyObjectWrapper> _image without a value
NoImage == V("nullopt", 0, "", <<>>)

\* PyObject_CallMethod(obj, name, format, ...): the attribute lookup (found)
\* and the call of what it finds (accepts) in one step
PyObject_CallMethod(S, name, args, found, accepts) ==
    IF ~found THEN [S EXCEPT !.out = PyNULL, !.err = TRUE]
    ELSE PyObject_Call(S, V("callable", 0, name, <<>>), args, PyNULL, accepts)

\* Traits::ImageSize<std::vector<std::vector<T>>>::get: {rows, columns of the
\* first row}; the assert on equal row sizes exists in builds without NDEBUG
Rectangular(image) == \A i \in 1..Len(image.l) : Len(image.l[i].l) = Len(image.l[1].l)

ImageSize_get_unasserted(image, ndebug) ==
    IF Len(image.l) = 0 THEN [st |-> "ok", size |-> <<0, 0>>]
    ELSE [st |-> "ok", size |-> <<Len(image.l), Len(image.l[1].l)>>]

ImageSize_get(image, ndebug) ==
    IF Len(image.l) = 0 THEN [st |-> "ok", size |-> <<0, 0>>]
    ELSE IF ~ndebug /\ ~Rectangular(image) THEN [st |-> "abort", size |-> <<0, 0>>]
    ELSE [st |-> "ok", size |-> <<Len(image.l), Len(image.l[1].l)>>]

\* Traits::ImageAccess<...>::at(idx, data): data.at(idx[0]).at(idx[1])
ImageAccess_in_range(idx, image) ==
    /\ idx[1] < Len(image.l)
    /\ idx[2] < Len(image.l[idx[1] + 1].l)

ImageAccess_at_transposed(idx, image) ==
    IF ImageAccess_in_range(<<idx[2], idx[1]>>, image)
    THEN image.l[idx[2] + 1].l[idx[1] + 1]
    ELSE image.l[idx[1] + 1].l[idx[2] + 1]
ImageAccess_at(idx, image) == image.l[idx[1] + 1].l[idx[2] + 1]

\* for (x = 0; x < size[1]; ++x) PyList_SET_ITEM(row, x, value_to_pyobject(at({y, x}, image)).release());
RECURSIVE set_image_cells(_, _, _, _, _, _)
\* S holds the converted value in out
set_image_cell_store(S, image, y, nx, row, x) ==
    IF Gone(S) THEN S
    ELSE set_image_cells(steal_reference(S), image, y, nx, PyList_SetItem(row, x, S.out), x + 1)

set_image_cells(S, image, y, nx, row, x) ==
    IF Gone(S) THEN S
    ELSE IF x >= nx THEN Return(S, row)
    ELSE IF ~ImageAccess_in_range(<<y, x>>, image) THEN Throw(S)     \* std::out_of_range
    ELSE set_image_cell_store(value_to_pyobject(S, ImageAccess_at(<<y, x>>, image)),
                              image, y, nx, row, x)

\* for (y = 0; y < size[0]; ++y) { row = check(PyList_New(size[1])); ...; PyList_SET_ITEM(pydata, y, row); }
RECURSIVE set_image_rows(_, _, _, _, _)
\* S holds the finished row in out
set_image_row_store(S, image, size, pydata, y) ==
    IF Gone(S) THEN S
    ELSE set_image_rows(S, image, size, PyList_SetItem(pydata, y, S.out), y + 1)

set_image_rows(S, image, size, pydata, y) ==
    IF Gone(S) THEN S
    ELSE IF y >= size[1] THEN Return(S, pydata)
    ELSE set_image_row_store(
            set_image_cells(check(S, PyList_New(size[2])), image, y, size[2],
                            PyList_New(size[2]), 0),
            image, size, pydata, y)

\* return check(PyObject_CallMethod(_axis, "imshow", "O", pydata)), pydata in S.out
set_image_imshow(S, env) ==
    IF Gone(S) THEN S
    ELSE check_out(PyObject_CallMethod(S, "imshow", V("tuple", 0, "", <<S.out>>),
                                       env.attr, env.call))

\* pydata = check(PyList_New(size[0])); if (!pydata) return nullptr; ...
set_image_lambda(S, image, size, env) ==
    IF Gone(S) THEN S
    ELSE IF ~env.args THEN Return(check(S, PyNULL), PyNULL)
    ELSE set_image_imshow(set_image_rows(S, image, size, PyList_New(size[1]), 0), env)

\* _image = <what the lambda returned>; return static_cast<bool>(_image);
\* the optional holds a handle from here on, whatever the handle holds
set_image_assign_non_null(S) ==
    IF Gone(S) THEN S
    ELSE [S EXCEPT !.image = IF S.out = PyNULL THEN @ ELSE S.out, !.res = TRUE]

set_image_assign(S) ==
    IF Gone(S) THEN S ELSE [S EXCEPT !.image = S.out, !.res = TRUE]

set_image_sized(S, image, sz, env) ==
    IF Gone(S) THEN S
    ELSE IF sz.st = "abort" THEN [S EXCEPT !.crashed = TRUE]
    ELSE set_image_assign(set_image_lambda(S, image, sz.size, env))

set_image(S, image, env) ==
    IF Gone(S) THEN S
    ELSE set_image_sized(pycall(S), image, ImageSize_get(image, env.ndebug), env)

\* ------------------------------------------------------- Axis::bar(x, y, kwargs)
\* kwargs.has_key(key)
has_key(kwargs, key) == \E i \in 1..Len(kwargs) : kwargs[i].key = key

\* the handle a lambda returns, as the bool the operation returns
as_bool_result(S) ==
    IF Gone(S) THEN S ELSE [S EXCEPT !.res = (S.out # PyNULL)]

\* if (kwargs.has_key("label")) { function_name = check(PyUnicode_FromString("bar_label"));
\*     PyObjectWrapper{check(PyObject_CallMethodOneArg(_axis, function_name, rects))}; }   return true;
bar_label(S, kwargs, env) ==
    IF Gone(S) THEN S
    ELSE IF has_key(kwargs, "label")
    THEN [check_out(PyObject_CallMethod(S, "bar_label", V("tuple", 0, "", <<S.out>>),
                                        env.label, env.label))
            EXCEPT !.res = TRUE]
    ELSE [S EXCEPT !.res = TRUE]

bar_rects_unchecked(S, kwargs, env) == bar_label(S, kwargs, env)

\* if (!rects) return false;  rects in S.out
bar_rects(S, kwargs, env) ==
    IF Gone(S) THEN S
    ELSE IF S.out = PyNULL THEN [S EXCEPT !.res = FALSE]
    ELSE bar_label(S, kwargs, env)

\* rects = check(PyObject_Call(function, args, <kwargs dict in S.out>))
bar_call(S, function, args, kwargs, env) ==
    IF Gone(S) THEN S
    ELSE bar_rects(dict_dtor(check_out(PyObject_Call(S, function, args, S.out, env.call)),
                             S.out, kwargs, 3),
                   kwargs, env)

\* if (function && args) { ... } PyErr_Print(); return false;   b: the args build
bar_test(S, function, b, kwargs, env) ==
    IF function # PyNULL /\ b.val # PyNULL
    THEN bar_call(as_pyobject(check(S, b.val), kwargs, env.ok, env.ub),
                  function, b.val, kwargs, env)
    ELSE [PyErr_Print(check(S, b.val)) EXCEPT !.res = FALSE, !.out = PyNULL]

\* args = check(Py_BuildValue("OO", xl, <y list in S.out>))
\* b holds a reference to each of the two lists until args goes out of scope
bar_built(S, function, b, kwargs, env) ==
    tuple_dtor(bar_test(IF b.val = PyNULL THEN S ELSE IncRefLists(S, 1, 2),
                        function, b, kwargs, env),
               b.val, 1, 2)

bar_args(S, xl, function, kwargs, env) ==
    IF Gone(S) THEN S
    ELSE bar_built(S, function,
                  Py_BuildValue(<<"O", "O">>,
                                <<CArg("pyobj", 0, "", xl), CArg("pyobj", 0, "", S.out)>>,
                                env.args, env.ub),
                  kwargs, env)

bar_lists(S, y, function, kwargs, env) ==
    IF Gone(S) THEN S ELSE bar_args(as_pylist(S, y), S.out, function, kwargs, env)

bar_lambda(S, x, y, function, kwargs, env) ==
    IF Gone(S) THEN S
    ELSE bar_lists(as_pylist(check(S, function), x), y, function, kwargs, env)

Axis_bar(S, x, y, kwargs, env) ==
    bar_lambda(pycall(S), x, y, PyObject_GetAttrString("bar", env.attr), kwargs, env)

\* ------------------------------------------------------- Axis::plot(y, kwargs), Axis::bar(y, kwargs)
iota_from_one(lo, hi) ==
    Host("range", 0, "iota", [i \in 1..(hi - lo) |-> Host("uint", lo + i, "", <<>>)])

\* std::views::iota(std::size_t{lo}, hi): the std::size_t values lo, ..., hi - 1
iota(lo, hi) ==
    Host("range", 0, "iota", [i \in 1..(hi - lo) |-> Host("uint", lo + i - 1, "", <<>>)])

\* return plot(std::views::iota(std::size_t{0}, std::ranges::size(y)), std::forward<Y>(y), kwargs);
Axis_plot_y(S, y, kwargs, env) == Axis_plot(S, iota(0, Len(y.l)), y, kwargs, env)

\* return bar(std::views::iota(std::size_t{0}, std::ranges::size(y)), std::forward<Y>(y), kwargs);
Axis_bar_y(S, y, kwargs, env) == Axis_bar(S, iota(0, Len(y.l)), y, kwargs, env)

\* ------------------------------------------------------- Axis::set_x_ticks / set_y_ticks
\* PyTuple_New(n): ok tells whether the runtime can allocate it
PyTuple_New(n, ok) == IF ok THEN V("tuple", 0, "", [i \in 1..n |-> PyNULL]) ELSE PyNULL

\* PyTuple_SetItem(p, i, item) dereferences p
PyTuple_SetItem(S, p, i, item) ==
    IF p = PyNULL THEN [S EXCEPT !.crashed = TRUE, !.out = PyNULL]
    ELSE [S EXCEPT !.out = [p EXCEPT !.l[i + 1] = item]]

\* return check(PyObject_Call(function, py_args, py_kwargs));  py_args in S.out
set_ticks_call(S, function, py_kwargs, env) ==
    IF Gone(S) THEN S
    ELSE as_bool_result(check_out(PyObject_Call(S, function, S.out, py_kwargs, env.call)))

\* PyTuple_SetItem(py_args.get(), 0, Py_BuildValue("O", as_pylist(x).release()));  the list in S.out
\* "O" takes a reference to the list, PyTuple_SetItem steals that one
set_ticks_item(S, function, py_args, py_kwargs, env) ==
    IF Gone(S) THEN S
    ELSE set_ticks_call(PyTuple_SetItem(IncRefLists(S, Len(S.lists), Len(S.lists)),
                                        py_args, 0, S.out),
                        function, py_kwargs, env)

\* py_kwargs (in S.out) = as_pyobject(kwargs)
\* py_kwargs and py_args go out of scope when the lambda is left
set_ticks_list(S, function, py_args, x, kwargs, env) ==
    IF Gone(S) THEN S
    ELSE tuple_dtor(dict_dtor(set_ticks_item(as_pylist(S, x), function, py_args, S.out, env),
                              S.out, kwargs, 1),
                    py_args, RangeValued(kwargs) + 1, RangeValued(kwargs) + 1)

\* function = check(PyObject_GetAttrString(_axis, name)); py_args = check(PyTuple_New(1));
set_ticks_lambda(S, function, py_args, x, kwargs, env) ==
    IF Gone(S) THEN S
    ELSE set_ticks_list(as_pyobject(check(check(S, function), py_args), kwargs, env.ok, env.ub),
                        function, py_args, x, kwargs, env)

\* name: "set_xticks" for set_x_ticks, "set_yticks" for set_y_ticks
Axis_set_ticks(S, name, x, kwargs, env) ==
    set_ticks_lambda(pycall(S), PyObject_GetAttrString(name, env.attr),
                     PyTuple_New(1, env.args), x, kwargs, env)

\* ------------------------------------------------------- Axis::add_legend(kwargs)
\* function = check(PyObject_GetAttrString(_axis, "legend"));
\* return PyObjectWrapper{check(PyObject_Call(function, py_args, py_kwargs))};  py_kwargs in S.out
add_legend_call(S, function, py_args, kwargs, env) ==
    IF Gone(S) THEN S
    ELSE dict_dtor(as_bool_result(check_out(
                        PyObject_Call(check(S, function), function, py_args, S.out, env.call))),
                   S.out, kwargs, 1)

\* py_args = check(PyTuple_New(0)); py_kwargs = as_pyobject(kwargs);
Axis_add_legend(S, py_args, kwargs, env) ==
    add_legend_call(as_pyobject(check(S, py_args), kwargs, env.ok, env.ub),
                    PyObject_GetAttrString("legend", env.attr), py_args, kwargs, env)

\* ------------------------------------------------------- Axis::add_colorbar()
\* the foreign axis object an Axis wraps; k: its index in Figure::_axes
AxisObject(k) == V("axis", k, "", <<>>)

\* if (!function || !kwargs) return false;
\* return PyObjectWrapper{check(PyObject_Call(function, args, kwargs))};   kwargs: b.val
add_colorbar_call(S, function, args, b, env) ==
    IF Gone(S) THEN S
    ELSE IF function = PyNULL \/ b.val = PyNULL THEN [S EXCEPT !.res = FALSE, !.out = PyNULL]
    ELSE as_bool_result(check_out(PyObject_Call(S, function, args, b.val, env.call)))

\* args = PyTuple_New(0); kwargs = check(Py_BuildValue("{s:O,s:O}", "mappable", *_image,
\* "ax", _axis)); function = check(PyObject_GetAttrString(_pyplot, "colorbar"));
add_colorbar_lambda(S, function, args, b, env) ==
    IF Gone(S) THEN S
    ELSE add_colorbar_call(check(check(unchecked(S, args), b.val), function),
                           function, args, b, env)

\* if (!_image.has_value()) throw std::runtime_error(...); return pycall(...);
add_colorbar(S, axis, env) ==
    IF S.image = NoImage THEN Throw(S)
    ELSE add_colorbar_lambda(pycall(S), PyObject_GetAttrString("colorbar", env.attr),
                             PyTuple_New(0, env.args),
                             Py_BuildValue(<<"{", "s", ":", "O", ",", "s", ":", "O", "}">>,
                                           <<CArg("charp", 0, "mappable", PyNULL),
                                             CArg("pyobj", 0, "", S.image),
                                             CArg("charp", 0, "ax", PyNULL),
                                             CArg("pyobj", 0, "", axis)>>,
                                           env.ok, env.ub),
                             env)

\* ------------------------------------------------------- Axis::set_x_label / set_y_label
\* return pycall([&] { return check(PyObject_CallMethod(_axis, name, "s", label.c_str())); });
\* name: "set_xlabel" or "set_ylabel"
Axis_set_label(S, name, label, env) ==
    as_bool_result(check_out(PyObject_CallMethod(pycall(S), name,
                                                 V("tuple", 0, "", <<PyUnicode_FromString(label)>>),
                                                 env.attr, env.call)))

\* ------------------------------------------------------- Error Observer, invoke
\* The revision of the library that has the error observer is known by its
\* tests only; these operators follow the specification's sections 4.5 and 4.6.

default_callback_not_raising(S) == PyErr_Print(S)

\* 4.6, the default callback: prints the diagnostic text of the foreign
\* runtime (which clears its error), then raises a host exception
default_callback(S) == Throw(PyErr_Print(S))

\* the callback the tests swap in: it records that an error was seen
capturing_callback(S) == S

\* 4.6 notify(): the callback installed is called
notify(S, observer) ==
    IF Gone(S) THEN S
    ELSE IF observer = "default" THEN default_callback([S EXCEPT !.notified = @ + 1])
    ELSE capturing_callback([S EXCEPT !.notified = @ + 1])

\* 4.4 build_positional(values...): the tuple of the converted values, or an
\* empty handle when the tuple cannot be allocated
build_positional(values, ok) ==
    IF ok THEN V("tuple", 0, "", [i \in 1..Len(values) |-> value_overload(values[i])])
    ELSE PyNULL

\* 4.5 step 6: null result => the observer fires
invoke_result(S, observer) ==
    IF Gone(S) THEN S ELSE IF S.out = PyNULL THEN notify(S, observer) ELSE S

\* 4.5 steps 4 and 5, the keyword dictionary being in S.out
invoke_call(S, function, tuple, env) ==
    IF Gone(S) THEN S
    ELSE IF function = PyNULL \/ tuple = PyNULL THEN Return(S, PyNULL)
    ELSE invoke_result(PyObject_Call(S, function, tuple, S.out, env.call), env.observer)

\* 4.5 step 1: missing attribute => null handle, the observer fires
invoke_resolve(S, function, observer) ==
    IF Gone(S) THEN S ELSE IF function = PyNULL THEN notify(S, observer) ELSE S

\* 4.5 invoke(object, method_name, args, kwargs)
invoke(S, method_name, args, kwargs, env) ==
    invoke_call(as_pyobject(invoke_resolve(pycall(S),
                                           PyObject_GetAttrString(method_name, env.attr),
                                           env.observer),
                            kwargs, env.ok, env.ub),
                PyObject_GetAttrString(method_name, env.attr),
                build_positional(args, env.args), env)

\* ------------------------------------------------------- library calls
MaxLen == 2           \* longest host range converted
MaxKwargs == 2        \* most keyword arguments in one Kwargs

SeqsUpTo(S, n) == UNION {[1..k -> S] : k \in 0..n}

\* range elements: every scalar kind value_to_pyobject handles
Elems ==
    {Host("int", 1, "", <<>>), Host("int", 2, "", <<>>), Host("float", 1, "", <<>>),
     Host("bool", 1, "", <<>>), Host("uint", 3, "", <<>>), Host("string", 0, "a", <<>>)}

\* std::vector (random access) and std::list (not random access)
Ranges == {Host("range", 0, cat, l) : cat \in {"vector", "list"}, l \in SeqsUpTo(Elems, MaxLen)}

EmptyRange == Host("range", 0, "vector", <<>>)

Keys == {"a", "b"}

KwValues ==
    {Host("int", 1, "", <<>>), Host("float", 2, "", <<>>), Host("cstr", 0, "x", <<>>),
     Host("string", 0, "y", <<>>),
     Host("range", 0, "vector", <<Host("int", 1, "", <<>>), Host("int", 2, "", <<>>)>>)}

\* one keyword argument of each integral kind: bool, std::size_t, int
IntegralKwargs ==
    {<<Kwarg("fill", Host("bool", 1, "", <<>>))>>, <<Kwarg("fill", Host("bool", 0, "", <<>>))>>,
     <<Kwarg("n", Host("uint", 3, "", <<>>))>>, <<Kwarg("n", Host("int", 3, "", <<>>))>>}

KwargsSets == SeqsUpTo({Kwarg(k, v) : k \in Keys, v \in KwValues}, MaxKwargs)

PlotData ==
    {Host("range", 0, "vector", <<Host("float", 1, "", <<>>), Host("float", 2, "", <<>>)>>),
     Host("range", 0, "list", <<Host("int", 2, "", <<>>)>>)}

\* ndebug: the build defines NDEBUG (assert compiles to nothing)
Envs == [attr : BOOLEAN, args : BOOLEAN, ok : BOOLEAN, call : BOOLEAN,
         ub : {"garbage", "null", "crash"}, ndebug : {TRUE}, label : {TRUE},
         observer : {"default"}]

NoEnv ==
    [attr |-> TRUE, args |-> TRUE, ok |-> TRUE, call |-> TRUE, ub |-> "garbage",
     ndebug |-> TRUE, label |-> TRUE, observer |-> "default"]

\* images: vectors of at most MaxRows rows of at most MaxCols values each,
\* rows of different sizes included
MaxRows == 2
MaxCols == 2

ImageElems == {Host("float", 1, "", <<>>), Host("int", 2, "", <<>>)}

ImageRows == {Host("range", 0, "vector", l) : l \in SeqsUpTo(ImageElems, MaxCols)}

Images == {Host("range", 0, "vector", rows) : rows \in SeqsUpTo(ImageRows, MaxRows)}

ImageEnvs ==
    {[NoEnv EXCEPT !.attr = e.attr, !.args = e.args, !.call = e.call, !.ndebug = e.ndebug] :
        e \in [attr : BOOLEAN, args : BOOLEAN, call : BOOLEAN, ndebug : BOOLEAN]}

\* bar charts: labels and heights of equal and of different lengths
BarData ==
    {<<Host("range", 0, "vector", <<Host("string", 0, "a", <<>>), Host("string", 0, "b", <<>>)>>),
       Host("range", 0, "vector", <<Host("int", 3, "", <<>>), Host("int", 2, "", <<>>)>>)>>,
     <<Host("range", 0, "vector", <<Host("string", 0, "a", <<>>), Host("string", 0, "b", <<>>)>>),
       Host("range", 0, "vector",
            <<Host("int", 3, "", <<>>), Host("int", 2, "", <<>>), Host("int", 4, "", <<>>)>>)>>}

AxisKwargs ==
    {<<>>, <<Kwarg("label", Host("cstr", 0, "x", <<>>))>>, <<Kwarg("a", Host("int", 1, "", <<>>))>>}

AxisEnvs ==
    {[NoEnv EXCEPT !.attr = e.attr, !.args = e.args, !.ok = e.ok, !.call = e.call,
                   !.label = e.label] :
        e \in [attr : BOOLEAN, args : BOOLEAN, ok : BOOLEAN, call : BOOLEAN, label : BOOLEAN]}

InvokeEnvs == {[e EXCEPT !.observer = o] : e \in AxisEnvs, o \in {"default", "capturing"}}

Call(op, x, y, kwargs, env) == [op |-> op, x |-> x, y |-> y, kwargs |-> kwargs, env |-> env]

NoCall == Call("none", EmptyRange, EmptyRange, <<>>, NoEnv)

Calls ==
    {Call("as_pylist", r, EmptyRange, <<>>, NoEnv) : r \in Ranges}
    \cup {Call("as_pyobject", EmptyRange, EmptyRange, kw,
               [NoEnv EXCEPT !.ok = e.ok, !.ub = e.ub]) :
               kw \in KwargsSets \cup IntegralKwargs, e \in Envs}
    \cup {Call("plot", d, d, kw, e) : d \in PlotData, kw \in KwargsSets, e \in Envs}
    \cup {Call("set_image", im, EmptyRange, <<>>, e) : im \in Images, e \in ImageEnvs}
    \cup {Call("bar", d[1], d[2], kw, e) : d \in BarData, kw \in AxisKwargs, e \in AxisEnvs}
    \cup {Call(op, d, EmptyRange, kw, e) :
               op \in {"set_x_ticks", "set_y_ticks", "add_legend"},
               d \in PlotData, kw \in AxisKwargs, e \in AxisEnvs}
    \cup {Call(op, EmptyRange, d, kw, e) :
               op \in {"plot_y", "bar_y"}, d \in PlotData \cup {EmptyRange},
               kw \in AxisKwargs, e \in AxisEnvs}
    \cup {Call("invoke", d, EmptyRange, kw, e) :
               d \in PlotData, kw \in AxisKwargs, e \in InvokeEnvs}

\* what a call leaves behind
Result(op, S) ==
    [op |-> op,
     outcome |-> IF S.crashed THEN "crashed" ELSE IF S.threw THEN "threw" ELSE "returned",
     out |-> S.out, res |-> S.res, prints |-> S.prints,
     fmt |-> S.fmt, cargs |-> S.cargs, calls |-> S.calls, image |-> S.image,
     lists |-> S.lists, notified |-> S.notified,
     acquired |-> S.acquired, stolen |-> S.stolen, err |-> S.err]

NoResult ==
    [op |-> "none", outcome |-> "returned", out |-> PyNULL, res |-> FALSE, prints |-> 0,
     fmt |-> <<>>, cargs |-> <<>>, calls |-> <<>>, image |-> NoImage, lists |-> <<>>,
     notified |-> 0, acquired |-> 0, stolen |-> 0, err |-> FALSE]

Finish(op, S) ==
    /\ rt' = S.rt /\ inits' = S.inits /\ finals' = S.finals /\ called' = S.called
    /\ term' = (S.term \/ S.crashed)
    /\ cv' = Result(op, S)
    /\ pc' = "done"
    /\ UNCHANGED <<rc, base, h, released, lateDec, foreignOutside, last, inp, open, figs, flog>>

AsPylistOp ==
    /\ pc = "ready" /\ inp.op = "as_pylist"
    /\ Finish("as_pylist", as_pylist(Cur, inp.x))

AsPyobjectOp ==
    /\ pc = "ready" /\ inp.op = "as_pyobject"
    /\ Finish("as_pyobject", as_pyobject(Cur, inp.kwargs, inp.env.ok, inp.env.ub))

PlotOp ==
    /\ pc = "ready" /\ inp.op = "plot"
    /\ Finish("plot", Axis_plot(Cur, inp.x, inp.y, inp.kwargs, inp.env))

SetImageOp ==
    /\ pc = "ready" /\ inp.op = "set_image"
    /\ Finish("set_image", set_image(Cur, inp.x, inp.env))

BarOp ==
    /\ pc = "ready" /\ inp.op = "bar"
    /\ Finish("bar", Axis_bar(Cur, inp.x, inp.y, inp.kwargs, inp.env))

SetTicksOp ==
    /\ pc = "ready" /\ inp.op \in {"set_x_ticks", "set_y_ticks"}
    /\ Finish(inp.op, Axis_set_ticks(Cur, IF inp.op = "set_x_ticks" THEN "set_xticks"
                                                                    ELSE "set_yticks",
                                     inp.x, inp.kwargs, inp.env))

InvokeOp ==
    /\ pc = "ready" /\ inp.op = "invoke"
    /\ Finish("invoke", invoke(Cur, "plot", inp.x.l, inp.kwargs, inp.env))

PlotYOp ==
    /\ pc = "ready" /\ inp.op = "plot_y"
    /\ Finish("plot_y", Axis_plot_y(Cur, inp.y, inp.kwargs, inp.env))

BarYOp ==
    /\ pc = "ready" /\ inp.op = "bar_y"
    /\ Finish("bar_y", Axis_bar_y(Cur, inp.y, inp.kwargs, inp.env))

\* add_legend does not pass the gate itself: the axis it is called on exists,
\* so the runtime is up
AddLegendOp ==
    /\ pc = "ready" /\ inp.op = "add_legend"
    /\ Finish("add_legend", Axis_add_legend(instance(Cur), PyTuple_New(0, inp.env.args),
                                            inp.kwargs, inp.env))

\* ------------------------------------------------------- Figure, MPLWrapper
MaxFigures == 1       \* Figure objects of the host program
MaxNy == 2            \* rows of a grid of axes
MaxNx == 1            \* columns of a grid of axes
MaxForeignNum == 1    \* figure numbers other users of pyplot may open

FigSlots == 1..MaxFigures

\* st: "none" (not yet created), "live", "dead" (destroyed); axes: the foreign
\* axes of _axes; images: _image of every Axis of _axes; shown: for every axis,
\* whether some set_image on it returned true; mine: the foreign figure this
\* Figure created has not been closed since
NoFigure ==
    [st |-> "none", id |-> 0, ny |-> 0, nx |-> 0, axes |-> <<>>, images |-> <<>>,
     shown |-> <<>>, mine |-> FALSE]

NoFigures == [f \in FigSlots |-> NoFigure]

\* what the format unit "i" reads of a std::size_t argument: its low 32 bits
\* as an int
INT_MAX == 2147483647

va_int(n) == IF n > INT_MAX THEN n - INT_MAX - INT_MAX - 2 ELSE n

\* Grid::count()
Grid_count(F) == F.ny * F.nx

\* pyplot.fignum_exists(num), pyplot.subplots(num = num, ...), pyplot.close(num),
\* pyplot.get_fignums() on the set of open figures
fignum_exists(nums, num) == num \in nums

subplots(nums, num) == nums \cup {num}

pyplot_close(nums, num) == nums \ {num}

get_fignums(nums) == nums

\* MPLWrapper::figure_exists(id): result.get() == Py_True
figure_exists(nums, id) == fignum_exists(nums, va_int(id))

\* MPLWrapper::number_of_active_figures(): PyList_Size of get_fignums()
number_of_active_figures(nums) == Cardinality(get_fignums(nums))

\* MPLWrapper::_get_unused_fig_id(): id = 0; while (figure_exists(id)) id++;
RECURSIVE unused_from(_, _)
unused_from(nums, id) == IF figure_exists(nums, id) THEN unused_from(nums, id + 1) ELSE id

get_unused_fig_id_zero(nums) == 0

get_unused_fig_id_count(nums) == number_of_active_figures(nums)

get_unused_fig_id(nums) == unused_from(nums, 0)

\* Py_BuildValue("{s:i,s:i,s:i}", "num", fig_id, "nrows", ny, "ncols", nx), the
\* three std::size_t read as int
figure_kwargs(id, ny, nx) ==
    MkDict(<<PyUnicode_FromString("num"), PyLong_FromLong(va_int(id)),
             PyUnicode_FromString("nrows"), PyLong_FromLong(va_int(ny)),
             PyUnicode_FromString("ncols"), PyLong_FromLong(va_int(nx))>>, <<>>)

\* the Axes pyplot.subplots puts at row r, column c of its grid
GridAxis(r, c) == V("axis", r, "", <<V("col", c, "", <<>>)>>)

\* the axes pyplot.subplots(nrows, ncols) returns: the Axes itself for a grid
\* of one, an array of Axes for one row or one column, else an array of rows
subplots_axes(nrows, ncols) ==
    IF nrows * ncols = 1 THEN GridAxis(0, 0)
    ELSE IF nrows = 1 THEN V("array", 0, "", [c \in 1..ncols |-> GridAxis(0, c - 1)])
    ELSE IF ncols = 1 THEN V("array", 0, "", [r \in 1..nrows |-> GridAxis(r - 1, 0)])
    ELSE V("array", 0, "",
           [r \in 1..nrows |-> V("array", 0, "", [c \in 1..ncols |-> GridAxis(r - 1, c - 1)])])

\* the axes of the answer to the last call of S, a call of subplots
subplots_answer(S) ==
    subplots_axes(PyDict_GetItem(S.calls[Len(S.calls)].given, PyUnicode_FromString("nrows")).n,
                  PyDict_GetItem(S.calls[Len(S.calls)].given, PyUnicode_FromString("ncols")).n)

\* for (y...) { row = PySequence_GetItem(axes, y); for (x...) ax_vec.push_back(PySequence_GetItem(row, x)); }
RECURSIVE rows_items(_)
rows_items(rows) == IF rows = <<>> THEN <<>> ELSE Head(rows).l \o rows_items(Tail(rows))

\* the axes as figure() hands them to the constructor of Figure
figure_ax_vec(axes, ny, nx) ==
    IF nx * ny = 1 THEN <<axes>>
    ELSE IF ny = 1 \/ nx = 1 THEN axes.l
    ELSE rows_items(axes.l)

\* if (ax_vec.size() != nx*ny) throw std::runtime_error("Could not create sub-figure axes");
figure_sized(S, ny, nx) ==
    IF Gone(S) THEN S
    ELSE IF nx * ny # 1 /\ Len(figure_ax_vec(subplots_answer(S), ny, nx)) # nx * ny THEN Throw(S)
    ELSE S

\* assert(PyTuple_Check(fig_axis_tuple)); Py_NewRef(PyTuple_GetItem(fig_axis_tuple, 0)); ...
\* a null fig_axis_tuple (in S.out) is dereferenced, or the assertion ends the process
figure_unpack(S) ==
    IF Gone(S) THEN S
    ELSE IF S.out = PyNULL THEN [S EXCEPT !.crashed = TRUE]
    ELSE as_bool_result(S)

\* function = check(PyObject_GetAttrString(_pyplot, "subplots")); if (!function) return nullptr;
\* args = PyTuple_New(0); kwargs = Py_BuildValue(...); return check(PyObject_Call(function, args, kwargs));
figure_subplots(S, function, args, kwargs, env) ==
    IF Gone(S) THEN S
    ELSE IF function = PyNULL THEN Return(check(S, function), PyNULL)
    ELSE check_out(PyObject_Call(unchecked(unchecked(S, args), kwargs), function, args, kwargs,
                                 env.call))

MPLWrapper_figure_unguarded(S, nums, ny, nx, env) ==
    figure_sized(figure_unpack(figure_subplots(
                    pycall(S), PyObject_GetAttrString("subplots", env.attr),
                    PyTuple_New(0, env.args),
                    IF env.ok THEN figure_kwargs(get_unused_fig_id(nums), ny, nx) ELSE PyNULL,
                    env)),
                 ny, nx)

\* MPLWrapper::figure(ny, nx)
MPLWrapper_figure(S, nums, ny, nx, env) ==
    IF ny = 0 \/ nx = 0 THEN Throw(S)
    ELSE figure_sized(figure_unpack(figure_subplots(
                        pycall(S), PyObject_GetAttrString("subplots", env.attr),
                        PyTuple_New(0, env.args),
                        IF env.ok THEN figure_kwargs(get_unused_fig_id(nums), ny, nx) ELSE PyNULL,
                        env)),
                      ny, nx)

\* Figure::close(): PyObject_CallMethod(_pyplot, "close", "i", _id); pyplot.close
\* returns None
Figure_close(S, F) ==
    as_bool_result(check_out(
        PyObject_CallMethod(pycall(S), "close",
                            V("tuple", 0, "", <<PyLong_FromLong(va_int(F.id))>>), TRUE, TRUE)))

\* the figures open after the foreign calls S.calls were made
RECURSIVE pyplot_after(_, _)
pyplot_after(nums, calls) ==
    IF calls = <<>> THEN nums
    ELSE pyplot_after(
            CASE Head(calls).out = PyNULL -> nums
              [] Head(calls).f.s = "subplots" ->
                    subplots(nums, PyDict_GetItem(Head(calls).kw, PyUnicode_FromString("num")).n)
              [] Head(calls).f.s = "close" -> pyplot_close(nums, Head(calls).args.l[1].n)
              [] OTHER -> nums,
            Tail(calls))

\* Figure{fig_id, _pyplot, fig, axes...}: _axes gets an Axis without image for
\* every axis given, in the order given
Figure_ctor(id, axes, ny, nx) ==
    [st |-> "live", id |-> id, ny |-> ny, nx |-> nx, axes |-> axes,
     images |-> [k \in 1..Len(axes) |-> NoImage],
     shown |-> [k \in 1..Len(axes) |-> FALSE], mine |-> TRUE]

\* the Figure that figure(ny, nx) returns when it ended in S
figure_returned(S, nums, ny, nx) ==
    Figure_ctor(get_unused_fig_id(nums), figure_ax_vec(subplots_answer(S), ny, nx), ny, nx)

\* the Figure after its close() ended in S
Figure_closed(S, F) == IF S.res THEN [F EXCEPT !.mine = FALSE] ELSE F

Figure_at_row_stride(F, loc) ==
    IF loc[1] >= F.ny \/ loc[2] >= F.nx THEN -1 ELSE loc[1] * F.ny + loc[2]

\* Figure::at(loc): the index into _axes, -1 when it throws
Figure_at(F, loc) ==
    IF loc[1] >= F.ny \/ loc[2] >= F.nx THEN -1 ELSE loc[1] * F.nx + loc[2]

\* the data the figure operations are called with
FigX == Host("range", 0, "vector", <<Host("int", 1, "", <<>>)>>)

FigImage == Host("range", 0, "vector", <<Host("range", 0, "vector", <<Host("int", 1, "", <<>>)>>)>>)

\* the foreign runtime's answers: all fine, attribute missing, tuple not
\* allocated, call refused
FigEnvs ==
    {NoEnv, [NoEnv EXCEPT !.attr = FALSE], [NoEnv EXCEPT !.args = FALSE],
     [NoEnv EXCEPT !.call = FALSE], [NoEnv EXCEPT !.ok = FALSE]}

AxisOps == {"set_image", "add_colorbar"}

ConvenienceOps ==
    {"plot", "bar", "set_image", "set_x_label", "set_y_label", "set_x_ticks", "set_y_ticks",
     "add_colorbar", "add_legend"}

\* the operation op of the Axis wrapping axis, started in S (S.image: its _image)
Axis_call(S, op, axis, env) ==
    CASE op = "plot" -> Axis_plot(S, FigX, FigX, <<>>, env)
      [] op = "bar" -> Axis_bar(S, FigX, FigX, <<>>, env)
      [] op = "set_image" -> set_image(S, FigImage, env)
      [] op = "set_x_label" -> Axis_set_label(S, "set_xlabel", "x", env)
      [] op = "set_y_label" -> Axis_set_label(S, "set_ylabel", "y", env)
      [] op = "set_x_ticks" -> Axis_set_ticks(S, "set_xticks", FigX, <<>>, env)
      [] op = "set_y_ticks" -> Axis_set_ticks(S, "set_yticks", FigX, <<>>, env)
      [] op = "add_colorbar" -> add_colorbar(S, axis, env)
      [] op = "add_legend" -> Axis_add_legend(S, PyTuple_New(0, env.args), <<>>, env)

\* fig.at(loc).op(...)
Figure_at_call(S, F, loc, op, env) ==
    IF Figure_at(F, loc) = -1 THEN Throw(S)
    ELSE Axis_call([S EXCEPT !.image = F.images[Figure_at(F, loc) + 1]], op,
                   AxisObject(Figure_at(F, loc)), env)

\* if (_grid.count() > 1) throw std::runtime_error(...);
multiple_axes_above_two(F) == Grid_count(F) > 2

multiple_axes(F) == Grid_count(F) > 1

\* the convenience functions of Figure: return _axes[0].op(...);
Figure_call(S, F, op, env) ==
    IF multiple_axes(F) THEN Throw(S)
    ELSE Axis_call([S EXCEPT !.image = F.images[1]], op, AxisObject(0), env)

\* what one operation did, as far as a caller can tell
Outcome(S) ==
    [outcome |-> IF S.crashed THEN "crashed" ELSE IF S.threw THEN "threw" ELSE "returned",
     res |-> S.res, calls |-> S.calls, prints |-> S.prints, image |-> S.image,
     err |-> S.err]

NoOutcome ==
    [outcome |-> "returned", res |-> FALSE, calls |-> <<>>, prints |-> 0, image |-> NoImage,
     err |-> FALSE]

NoFigOp ==
    [op |-> "none", via |-> "none", fig |-> 0, axis |-> -1, count |-> 0, before |-> 0, after |-> 0,
     wasOpen |-> FALSE, shown |-> FALSE, preImage |-> NoImage, env |-> NoEnv, r |-> NoOutcome,
     fresh |-> FALSE, createdAt |-> 0]

\* ------------------------------------------------------- handle operations
OneAt(p) == [o \in Objs |-> IF o = p THEN 1 ELSE 0]

TotalReleased == LET RECURSIVE Sum(_)
                     Sum(n) == IF n = 0 THEN 0 ELSE released[n] + Sum(n - 1)
                 IN  Sum(NumObjs)

\* the successor state is the machine state S; the log keeps what the
\* operation saw before it ran
Commit(S, op, dst, src, arg) ==
    /\ rt' = S.rt /\ inits' = S.inits /\ finals' = S.finals /\ called' = S.called
    /\ rc' = S.rc /\ h' = S.h /\ lateDec' = S.lateDec
    /\ foreignOutside' = S.foreignOutside /\ term' = S.term
    /\ base' = base
    /\ UNCHANGED <<inp, pc, cv, open, figs, flog>>
    /\ last' = [op |-> op, dst |-> dst, src |-> src, arg |-> arg,
                preDst |-> IF dst \in Slots THEN h[dst] ELSE NONE,
                preSrc |-> IF src \in Slots THEN h[src] ELSE NONE,
                rcPre |-> rc, rtPre |-> rt,
                incs |-> S.incs, decs |-> S.decs, ret |-> S.ret, threw |-> S.threw,
                prevOp |-> last.op, prevDst |-> last.dst, prevRet |-> last.ret]

NoOp ==
    [op |-> "none", dst |-> NONE, src |-> NONE, arg |-> NONE, preDst |-> NONE,
     preSrc |-> NONE, rcPre |-> Zero, rtPre |-> "uninit", incs |-> Zero,
     decs |-> Zero, ret |-> NONE, threw |-> FALSE,
     prevOp |-> "none", prevDst |-> NONE, prevRet |-> NONE]

\* PyObjectWrapper w{pycall(<foreign constructor>)}
ConstructNew ==
    \E x \in Handles, o \in Objs :
        /\ ~term /\ h[x] = DEAD
        /\ Commit(WrapNew(Cur, x, o), "ctor_new", x, NONE, o)
        /\ UNCHANGED released

\* PyObjectWrapper w{p} for nullptr or for a pointer obtained from release()
ConstructOwned ==
    \E x \in Handles, p \in Objs \cup {NULL} :
        /\ ~term /\ h[x] = DEAD
        /\ p # NULL => released[p] > 0
        /\ Commit(CtorOwned(Cur, x, p), "ctor_owned", x, NONE, p)
        /\ released' = IF p = NULL THEN released ELSE [released EXCEPT ![p] = @ - 1]

\* PyObjectWrapper w{p, WeakReference{}} for nullptr or a pointer borrowed
\* from a live object
ConstructWeak ==
    \E x \in Handles, p \in Objs \cup {NULL} :
        /\ ~term /\ h[x] = DEAD
        /\ p # NULL => rc[p] > 0
        /\ Commit(CtorWeak(Cur, x, p), "ctor_weak", x, NONE, p)
        /\ UNCHANGED released

CopyConstruct ==
    \E x \in Handles, y \in Handles :
        /\ ~term /\ h[x] = DEAD /\ h[y] # DEAD
        /\ Commit(CopyCtor(Cur, x, y), "copy_ctor", x, y, NONE)
        /\ UNCHANGED released

MoveConstruct ==
    \E x \in Handles, y \in Handles :
        /\ ~term /\ h[x] = DEAD /\ h[y] # DEAD
        /\ Commit(MoveCtor(Cur, x, y), "move_ctor", x, y, NONE)
        /\ UNCHANGED released

\* x = y, self-assignment included
CopyAssignOp ==
    \E x \in Handles, y \in Handles :
        /\ ~term /\ h[x] # DEAD /\ h[y] # DEAD
        /\ Commit(CopyAssign(Cur, x, y), "copy_assign", x, y, NONE)
        /\ UNCHANGED released

\* x = std::move(y)
MoveAssignOp ==
    \E x \in Handles, y \in Handles :
        /\ ~term /\ h[x] # DEAD /\ h[y] # DEAD
        /\ Commit(MoveAssign(Cur, x, y), "move_assign", x, y, NONE)
        /\ UNCHANGED released

ReleaseOp ==
    \E x \in Handles :
        /\ ~term /\ h[x] # DEAD
        /\ h[x] # NULL => TotalReleased < MaxReleased
        /\ LET S == release(Cur, x)
           IN  /\ Commit(S, "release", x, NONE, NONE)
               /\ released' = IF S.ret = NULL THEN released
                              ELSE [released EXCEPT ![S.ret] = @ + 1]

Destroy ==
    \E x \in Handles :
        /\ ~term /\ h[x] # DEAD
        /\ Commit(Dtor(Cur, x), "dtor", x, NONE, NONE)
        /\ UNCHANGED released

\* process exit: the static Python object, once constructed, is destroyed
\* before every object of static storage duration constructed before it
Exit ==
    /\ ~term /\ rt = "init"
    /\ Commit(Python_dtor(Cur), "exit", NONE, NONE, NONE)
    /\ UNCHANGED released

Init ==
    /\ rt = "uninit" /\ inits = 0 /\ finals = 0 /\ called = FALSE
    /\ base \in [Objs -> 0..MaxBase]
    /\ rc = base
    /\ h = [x \in Slots |-> DEAD]
    /\ released = Zero
    /\ lateDec = FALSE /\ foreignOutside = FALSE /\ term = FALSE
    /\ last = NoOp
    /\ inp = NoCall /\ pc = "done" /\ cv = NoResult
    /\ open = {} /\ figs = NoFigures /\ flog = NoFigOp

Next ==
    \/ ConstructNew
    \/ ConstructOwned
    \/ ConstructWeak
    \/ CopyConstruct
    \/ MoveConstruct
    \/ CopyAssignOp
    \/ MoveAssignOp
    \/ ReleaseOp
    \/ Destroy
    \/ Exit

Spec == Init /\ [][Next]_vars

\* one library call on arguments drawn from the bounded input sets
InitCall ==
    /\ rt = "uninit" /\ inits = 0 /\ finals = 0 /\ called = FALSE
    /\ base = [o \in Objs |-> 0]
    /\ rc = base
    /\ h = [x \in Slots |-> DEAD]
    /\ released = Zero
    /\ lateDec = FALSE /\ foreignOutside = FALSE /\ term = FALSE
    /\ last = NoOp
    /\ inp \in Calls /\ pc = "ready" /\ cv = NoResult
    /\ open = {} /\ figs = NoFigures /\ flog = NoFigOp

NextCall ==
    \/ AsPylistOp
    \/ AsPyobjectOp
    \/ PlotOp
    \/ SetImageOp
    \/ BarOp
    \/ PlotYOp
    \/ BarYOp
    \/ SetTicksOp
    \/ AddLegendOp
    \/ InvokeOp

SpecCall == InitCall /\ [][NextCall]_vars

\* ------------------------------------------------------- operations on figures
\* the operation before this one was the creation of figure f
JustCreated(f) == flog.op = "figure" /\ flog.fig = f /\ flog.r.outcome = "returned"

\* via: the class the operation belongs to; F: figs'[f]; axis: the index of the axis used (-1: none); S: the state the
\* operation ends in
FigCommit(op, via, f, axis, nums, F, env, S) ==
    /\ open' = nums
    /\ figs' = [figs EXCEPT ![f] = F]
    /\ term' = S.crashed
    /\ flog' = [op |-> op, via |-> via, fig |-> f, axis |-> axis, count |-> Grid_count(figs[f]),
                before |-> number_of_active_figures(open),
                after |-> number_of_active_figures(nums),
                wasOpen |-> figs[f].st = "live" /\ figure_exists(open, figs[f].id),
                shown |-> IF axis >= 0 /\ axis < Len(figs[f].shown)
                          THEN figs[f].shown[axis + 1] ELSE FALSE,
                preImage |-> IF axis >= 0 /\ axis < Len(figs[f].images)
                             THEN figs[f].images[axis + 1] ELSE NoImage,
                env |-> env, r |-> Outcome(S),
                fresh |-> JustCreated(f),
                createdAt |-> IF JustCreated(f) THEN flog.before ELSE 0]
    /\ UNCHANGED <<rt, inits, finals, called, rc, base, h, released, lateDec, foreignOutside,
                   last, inp, pc, cv>>

\* MPLWrapper::figure(ny, nx)
FigureCreate ==
    \E f \in FigSlots, ny \in 0..MaxNy, nx \in 0..MaxNx, env \in FigEnvs :
        /\ ~term /\ figs[f].st # "live"
        /\ FigCommit("figure", "MPLWrapper", f, -1,
                     pyplot_after(open, MPLWrapper_figure(Cur, open, ny, nx, env).calls),
                     IF Gone(MPLWrapper_figure(Cur, open, ny, nx, env)) THEN figs[f]
                     ELSE figure_returned(MPLWrapper_figure(Cur, open, ny, nx, env),
                                          open, ny, nx),
                     env, MPLWrapper_figure(Cur, open, ny, nx, env))

\* Figure::close(): PyObject_CallMethod(_pyplot, "close", "i", _id)
FigureClose ==
    \E f \in FigSlots :
        /\ ~term /\ figs[f].st = "live"
        /\ FigCommit("close", "Figure", f, -1,
                     pyplot_after(open, Figure_close(Cur, figs[f]).calls),
                     Figure_closed(Figure_close(Cur, figs[f]), figs[f]), NoEnv,
                     Figure_close(Cur, figs[f]))

\* ~Figure() { close(); }
FigureDtor ==
    \E f \in FigSlots :
        /\ ~term /\ figs[f].st = "live"
        /\ FigCommit("dtor", "Figure", f, -1,
                     pyplot_after(open, Figure_close(Cur, figs[f]).calls),
                     [NoFigure EXCEPT !.st = "dead"], NoEnv, Figure_close(Cur, figs[f]))

\* someone else opens a figure in pyplot
ForeignOpen ==
    \E n \in 0..MaxForeignNum :
        /\ ~term /\ ~fignum_exists(open, n)
        /\ open' = subplots(open, n)
        /\ flog' = [NoFigOp EXCEPT !.op = "foreign"]
        /\ UNCHANGED <<rt, inits, finals, called, rc, base, h, released, lateDec,
                       foreignOutside, term, last, inp, pc, cv, figs>>

\* the Figure after an operation on its axis k ended in S
AxisUpdated(F, k, op, S) ==
    IF Gone(S) THEN F
    ELSE [F EXCEPT !.images[k + 1] = S.image,
                   !.shown[k + 1] = @ \/ (op = "set_image" /\ S.res)]

\* fig.at({row, col}).set_image(image), fig.at({row, col}).add_colorbar()
AxisOp ==
    \E f \in FigSlots, row \in 0..MaxNy, col \in 0..MaxNx, op \in AxisOps, env \in FigEnvs :
        /\ ~term /\ figs[f].st = "live"
        /\ IF Figure_at(figs[f], <<row, col>>) = -1
           THEN FigCommit(op, "Axis", f, -1, open, figs[f], env, Throw(Cur))
           ELSE FigCommit(op, "Axis", f, Figure_at(figs[f], <<row, col>>), open,
                          AxisUpdated(figs[f], Figure_at(figs[f], <<row, col>>), op,
                                      Figure_at_call(Cur, figs[f], <<row, col>>, op, env)),
                          env, Figure_at_call(Cur, figs[f], <<row, col>>, op, env))

\* fig.plot(...), fig.bar(...), ..., fig.add_legend(): the convenience functions
FigureOp ==
    \E f \in FigSlots, op \in ConvenienceOps, env \in FigEnvs :
        /\ ~term /\ figs[f].st = "live"
        /\ IF multiple_axes(figs[f])
           THEN FigCommit(op, "Figure", f, -1, open, figs[f], env,
                          Figure_call(Cur, figs[f], op, env))
           ELSE FigCommit(op, "Figure", f, 0, open,
                          AxisUpdated(figs[f], 0, op, Figure_call(Cur, figs[f], op, env)),
                          env, Figure_call(Cur, figs[f], op, env))

\* the MPLWrapper exists, so the runtime is up
InitFig ==
    /\ rt = "init" /\ inits = 1 /\ finals = 0 /\ called = TRUE
    /\ base = [o \in Objs |-> 0]
    /\ rc = base
    /\ h = [x \in Slots |-> DEAD]
    /\ released = Zero
    /\ lateDec = FALSE /\ foreignOutside = FALSE /\ term = FALSE
    /\ last = NoOp
    /\ inp = NoCall /\ pc = "done" /\ cv = NoResult
    /\ open = {} /\ figs = NoFigures /\ flog = NoFigOp

NextFig ==
    \/ FigureCreate
    \/ FigureClose
    \/ FigureDtor
    \/ ForeignOpen
    \/ AxisOp
    \/ FigureOp

SpecFig == InitFig /\ [][NextFig]_vars

\* ------------------------------------------------------- Figure::save_to(path)
\* return check(PyObject_Call(function, py_args, nullptr));   py_args in S.out
\* the handle the outer check receives is what the lambda returned
save_to_call(S, function, env) ==
    IF Gone(S) THEN S
    ELSE as_bool_result(check_out(check_out(PyObject_Call(S, function, S.out, PyNULL, env.call))))

\* py_args = check(PyTuple_New(1)); PyTuple_SetItem(py_args, 0, Py_BuildValue("s", path.c_str()));
save_to_args(S, function, py_args, path, env) ==
    IF Gone(S) THEN S
    ELSE save_to_call(PyTuple_SetItem(check(S, py_args), py_args, 0, PyUnicode_FromString(path)),
                      function, env)

\* the keyword arguments save_to builds
save_to_kwargs == <<Kwarg("bbox_inches", Host("cstr", 0, "tight", <<>>))>>

\* function = check(PyObject_GetAttrString(_fig, "savefig")); if (!function) return nullptr;
\* py_kwargs = as_pyobject(with(kw("bbox_inches") = "tight"));
save_to_lambda(S, function, py_args, path, env) ==
    IF Gone(S) THEN S
    ELSE IF function = PyNULL THEN as_bool_result(Return(check(check(S, function), PyNULL), PyNULL))
    ELSE save_to_args(as_pyobject(S, save_to_kwargs, env.ok, env.ub), function, py_args, path, env)

Figure_save_to(S, path, env) ==
    save_to_lambda(pycall(S), PyObject_GetAttrString("savefig", env.attr),
                   PyTuple_New(1, env.args), path, env)

\* return _axes.at(loc.row*_grid.nx + loc.col);  std::vector::at throws
\* std::out_of_range for an index that is not in the vector.  S.ret: the index
\* of the axis returned, S.out: its foreign axis
Figure_at_axis(S, F, loc) ==
    IF Figure_at(F, loc) = -1 \/ Figure_at(F, loc) >= Len(F.axes) THEN Throw(S)
    ELSE [S EXCEPT !.ret = Figure_at(F, loc), !.out = F.axes[Figure_at(F, loc) + 1]]

\* ------------------------------------------------------- the lives of figures
MaxLiveFigures == 2   \* Figure objects alive at the same time
MaxGrid == 2          \* rows and columns asked of figure(ny, nx)

LifeSlots == 1..MaxLiveFigures

NoLifeOp ==
    [op |-> "none", fig |-> 0, ny |-> 0, nx |-> 0, row |-> 0, col |-> 0, pre |-> NoFigure,
     openBefore |-> {}, openAfter |-> {}, victims |-> {}, env |-> NoEnv, r |-> NoOutcome]

\* the other live Figure objects whose foreign figure a close() of Figure f
\* closes
Victims(f) ==
    {g \in LifeSlots \ {f} :
        /\ figs[g].st = "live" /\ figs[g].mine
        /\ va_int(figs[g].id) = va_int(figs[f].id)
        /\ figure_exists(open, figs[f].id)}

\* the Figure objects after the close() of Figure f ended in S: the foreign
\* figure of that number is closed, whoever created it
AfterClose(f, S) ==
    [g \in LifeSlots |->
        IF figs[g].st = "live" /\ va_int(figs[g].id) = va_int(figs[f].id)
        THEN Figure_closed(S, figs[g]) ELSE figs[g]]

LifeCommit(op, f, ny, nx, row, col, nums, newFigs, env, S) ==
    /\ open' = nums
    /\ figs' = newFigs
    /\ term' = S.crashed
    /\ flog' = [op |-> op, fig |-> f, ny |-> ny, nx |-> nx, row |-> row, col |-> col,
                pre |-> figs[f], openBefore |-> open, openAfter |-> nums,
                victims |-> IF op \in {"close", "dtor"} THEN Victims(f) ELSE {},
                env |-> env, r |-> Outcome(S)]
    /\ UNCHANGED <<rt, inits, finals, called, rc, base, h, released, lateDec, foreignOutside,
                   last, inp, pc, cv>>

\* Figure fig = figure(ny, nx);
LifeCreate ==
    \E f \in LifeSlots, ny \in 0..MaxGrid, nx \in 0..MaxGrid, env \in FigEnvs :
        /\ ~term /\ figs[f].st # "live"
        /\ LifeCommit("figure", f, ny, nx, 0, 0,
                      pyplot_after(open, MPLWrapper_figure(Cur, open, ny, nx, env).calls),
                      IF Gone(MPLWrapper_figure(Cur, open, ny, nx, env)) THEN figs
                      ELSE [figs EXCEPT ![f] =
                              figure_returned(MPLWrapper_figure(Cur, open, ny, nx, env),
                                              open, ny, nx)],
                      env, MPLWrapper_figure(Cur, open, ny, nx, env))

\* fig.close();
LifeClose ==
    \E f \in LifeSlots :
        /\ ~term /\ figs[f].st = "live"
        /\ LifeCommit("close", f, figs[f].ny, figs[f].nx, 0, 0,
                      pyplot_after(open, Figure_close(Cur, figs[f]).calls),
                      AfterClose(f, Figure_close(Cur, figs[f])),
                      NoEnv, Figure_close(Cur, figs[f]))

\* fig goes out of scope: ~Figure() { close(); }
LifeDtor ==
    \E f \in LifeSlots :
        /\ ~term /\ figs[f].st = "live"
        /\ LifeCommit("dtor", f, figs[f].ny, figs[f].nx, 0, 0,
                      pyplot_after(open, Figure_close(Cur, figs[f]).calls),
                      [AfterClose(f, Figure_close(Cur, figs[f]))
                          EXCEPT ![f] = [NoFigure EXCEPT !.st = "dead"]],
                      NoEnv, Figure_close(Cur, figs[f]))

\* fig.at({row, col})
LifeAt ==
    \E f \in LifeSlots, row \in 0..MaxGrid, col \in 0..MaxGrid :
        /\ ~term /\ figs[f].st = "live"
        /\ LifeCommit("at", f, figs[f].ny, figs[f].nx, row, col, open, figs, NoEnv,
                      Figure_at_axis(Cur, figs[f], <<row, col>>))

\* fig.save_to(path);
LifeSave ==
    \E f \in LifeSlots, env \in FigEnvs :
        /\ ~term /\ figs[f].st = "live"
        /\ LifeCommit("save_to", f, figs[f].ny, figs[f].nx, 0, 0, open, figs, env,
                      Figure_save_to(Cur, "out.png", env))

InitLife ==
    /\ rt = "init" /\ inits = 1 /\ finals = 0 /\ called = TRUE
    /\ base = [o \in Objs |-> 0]
    /\ rc = base
    /\ h = [x \in Slots |-> DEAD]
    /\ released = Zero
    /\ lateDec = FALSE /\ foreignOutside = FALSE /\ term = FALSE
    /\ last = NoOp
    /\ inp = NoCall /\ pc = "done" /\ cv = NoResult
    /\ open = {} /\ figs = [f \in LifeSlots |-> NoFigure] /\ flog = NoLifeOp

NextLife ==
    \/ LifeCreate
    \/ LifeClose
    \/ LifeDtor
    \/ LifeAt
    \/ LifeSave

SpecLife == InitLife /\ [][NextLife]_vars

\* ======================================================= claims C1..C6
HoldersOf(o) == Cardinality({x \in Slots : h[x] = o})

AllDestroyed == \A x \in Slots : h[x] = DEAD

Unthrown(ops) == last.op \in ops /\ ~last.threw

\* C1: the reference count of every foreign object always equals its baseline
\* plus the number of live non-empty handles holding it plus the number of
\* references handed out by release(); it is back at the baseline once all
\* handles are destroyed and nothing is released.
C1_RefcountBalance ==
    /\ \A o \in Objs : rc[o] = base[o] + HoldersOf(o) + released[o]
    /\ (AllDestroyed /\ released = Zero) => rc = base

\* every handle is gone again after a self copy-assignment of a non-empty
\* handle, and the count is back at the baseline
C1_Witness ==
    /\ AllDestroyed /\ released = Zero /\ rc = base
    /\ last.op = "dtor" /\ last.preDst \in Objs /\ last.decs = OneAt(last.preDst)
    /\ last.prevOp = "copy_assign"

\* C2 (as claimed): move construction and move assignment both give the
\* pointer to the destination, leave the source empty and change no count.
C2_MoveNullsSource ==
    Unthrown({"move_ctor", "move_assign"}) =>
        /\ h[last.dst] = last.preSrc
        /\ h[last.src] = NULL
        /\ rc = last.rcPre

\* C2 (amended): both moves give the source's pointer to the destination and
\* change no reference count; move construction leaves the source empty, move
\* assignment leaves the source holding the destination's previous pointer.
C2_MoveAmended ==
    /\ Unthrown({"move_ctor"}) =>
        /\ h[last.dst] = last.preSrc
        /\ h[last.src] = NULL
        /\ rc = last.rcPre /\ last.incs = Zero /\ last.decs = Zero
    /\ Unthrown({"move_assign"}) =>
        /\ h[last.dst] = last.preSrc
        /\ h[last.src] = last.preDst
        /\ rc = last.rcPre /\ last.incs = Zero /\ last.decs = Zero

\* a move assignment between two different non-empty handles
C2_Witness ==
    /\ Unthrown({"move_assign"})
    /\ last.dst # last.src
    /\ last.preDst \in Objs /\ last.preSrc \in Objs /\ last.preDst # last.preSrc
    /\ h[last.src] = last.preDst

\* C3: construction from an owned pointer performs no increment; construction
\* from a borrowed pointer or by copy performs exactly one increment for a
\* non-null pointer and none for null; a copy leaves the source as it was.
C3_ConstructIncrements ==
    /\ Unthrown({"ctor_owned"}) =>
        /\ h[last.dst] = last.arg
        /\ last.incs = Zero /\ last.decs = Zero /\ rc = last.rcPre
    /\ Unthrown({"ctor_new"}) =>
        /\ h[last.dst] = last.arg
        /\ last.incs = Zero /\ last.decs = Zero
    /\ Unthrown({"ctor_weak"}) =>
        /\ h[last.dst] = last.arg
        /\ last.incs = OneAt(last.arg) /\ last.decs = Zero
        /\ \A o \in Objs : rc[o] = last.rcPre[o] + OneAt(last.arg)[o]
    /\ Unthrown({"copy_ctor"}) =>
        /\ h[last.dst] = last.preSrc /\ h[last.src] = last.preSrc
        /\ last.incs = OneAt(last.preSrc) /\ last.decs = Zero
        /\ \A o \in Objs : rc[o] = last.rcPre[o] + OneAt(last.preSrc)[o]

\* a copy of a non-empty handle
C3_Witness ==
    /\ Unthrown({"copy_ctor"}) /\ last.preSrc \in Objs
    /\ rc[last.preSrc] = last.rcPre[last.preSrc] + 1

\* C4: release() returns the pointer the handle held, leaves the handle empty,
\* changes no reference count, and destroying the handle right afterwards
\* performs no decrement.
C4_Release ==
    /\ Unthrown({"release"}) =>
        /\ last.ret = last.preDst
        /\ h[last.dst] = NULL /\ ~AsBool(h[last.dst])
        /\ rc = last.rcPre /\ last.incs = Zero /\ last.decs = Zero
    /\ (Unthrown({"dtor"}) /\ last.prevOp = "release" /\ last.prevDst = last.dst) =>
        /\ last.decs = Zero /\ rc = last.rcPre

\* a handle that held an object was released and then destroyed
C4_Witness ==
    /\ Unthrown({"dtor"}) /\ last.prevOp = "release" /\ last.prevDst = last.dst
    /\ last.prevRet \in Objs
    /\ released[last.prevRet] > 0

\* C5: destroying a handle decrements exactly once when it is non-empty and
\* not at all when it is empty, and no decrement is ever performed while the
\* runtime is not initialized (after teardown the destructor's gate throws).
C5_Destroy ==
    /\ Unthrown({"dtor"}) =>
        /\ last.decs = OneAt(last.preDst) /\ last.incs = Zero
        /\ \A o \in Objs : rc[o] = last.rcPre[o] - OneAt(last.preDst)[o]
        /\ h[last.dst] = DEAD
    /\ (last.op = "dtor" /\ last.threw) =>
        /\ last.rtPre = "finalized" /\ last.decs = Zero /\ rc = last.rcPre
    /\ ~lateDec

\* a non-empty handle is destroyed after the runtime was torn down
C5_Witness ==
    /\ last.op = "dtor" /\ last.threw /\ last.preDst \in Objs
    /\ rt = "finalized" /\ term

\* C6: the runtime is initialized exactly once, by the first gated operation,
\* torn down at most once and only after it was initialized; a gated operation
\* never runs its foreign action while the runtime is not initialized: it
\* throws instead.
Gated == {"ctor_new", "ctor_weak", "copy_ctor", "copy_assign", "dtor"}

C6_RuntimeOnce ==
    /\ inits <= 1 /\ finals <= 1
    /\ finals = 1 => inits = 1
    /\ called <=> inits = 1
    /\ (rt = "init") <=> (inits = 1 /\ finals = 0)
    /\ (rt = "uninit") <=> (inits = 0)
    /\ ~foreignOutside
    /\ (last.op \in Gated /\ last.rtPre = "finalized") =>
        /\ last.threw /\ last.incs = Zero /\ last.decs = Zero /\ rc = last.rcPre
    /\ (last.op \in Gated /\ last.rtPre # "finalized") => ~last.threw

\* a gated operation was attempted after the teardown and threw
C6_Witness ==
    /\ inits = 1 /\ finals = 1
    /\ last.op \in Gated /\ last.rtPre = "finalized" /\ last.threw

\* ======================================================= claims C7..C10
Did(op) == pc = "done" /\ cv.op = op

\* the C argument as_buildvalue_arg makes of one host value
ArgOf(v) == as_buildvalue_arg([Cur EXCEPT !.cargs = <<>>], v).cargs[1]

\* k1, v1, k2, v2, ..., kn, vn
Interleaved(kwargs) ==
    [i \in 1..(2 * Len(kwargs)) |->
        IF i % 2 = 1 THEN CArg("charp", 0, kwargs[(i + 1) \div 2].key, PyNULL)
        ELSE ArgOf(kwargs[i \div 2].value)]

\* the foreign value a keyword argument's value stands for
ConvertedValue(v) == ConvertUnit(format_overload(v), ArgOf(v)).val

\* the value of the last kwarg declared with key k
LastValueFor(kwargs, k) ==
    LET i == CHOOSE j \in 1..Len(kwargs) :
                 /\ kwargs[j].key = k
                 /\ \A m \in (j + 1)..Len(kwargs) : kwargs[m].key # k
    IN  kwargs[i].value

FormatEntries(fmt) == Len(SelectSeq(fmt, LAMBDA c : c = ":"))

\* C7: for kwargs k1=v1, ..., kn=vn (n >= 1) the builder passes the flat
\* argument sequence k1, v1, ..., kn, vn to the one Py_BuildValue call, with a
\* format of exactly n key:value entries, so that the dictionary maps every
\* ki to the converted vi (for distinct keys: n entries).
C7_Interleaved ==
    (Did("as_pyobject") /\ Len(inp.kwargs) >= 1) =>
        /\ cv.cargs = Interleaved(inp.kwargs)
        /\ FormatEntries(cv.fmt) = Len(inp.kwargs)
        /\ cv.outcome = "returned" =>
            /\ cv.out.t = "dict"
            /\ Len(cv.out.l) = Cardinality({inp.kwargs[i].key : i \in 1..Len(inp.kwargs)})
            /\ \A i \in 1..Len(inp.kwargs) :
                   PyDict_GetItem(cv.out, PyUnicode_FromString(inp.kwargs[i].key))
                       = ConvertedValue(LastValueFor(inp.kwargs, inp.kwargs[i].key))

\* C8: building from zero kwargs yields the null sentinel without an error
\* report or an exception, and plot with that sentinel makes the foreign call
\* as a call without keyword arguments and returns what the callee answers.
C8_NoKwargs ==
    /\ (Did("as_pyobject") /\ inp.kwargs = <<>>) =>
        /\ cv.outcome = "returned" /\ cv.out = PyNULL
        /\ cv.prints = 0 /\ cv.fmt = <<>> /\ cv.cargs = <<>>
    /\ (Did("plot") /\ inp.kwargs = <<>>) =>
        /\ cv.outcome = "returned"
        /\ (inp.env.attr /\ inp.env.args) =>
            /\ Len(cv.calls) = 1
            /\ cv.calls[1].kw = PyNULL /\ cv.calls[1].given = EmptyDict
            /\ cv.res = inp.env.call
            /\ inp.env.call => cv.prints = 0
        /\ ~(inp.env.attr /\ inp.env.args) => (cv.calls = <<>> /\ ~cv.res)

\* a plot without kwargs whose foreign call was made and succeeded
C8_Witness ==
    /\ Did("plot") /\ inp.kwargs = <<>>
    /\ Len(cv.calls) = 1 /\ cv.calls[1].kw = PyNULL /\ cv.res

\* C9: for one or more kwargs the builder never returns an empty handle: it
\* either returns a non-null dictionary handle or throws a host exception.
C9_BuilderNeverEmpty ==
    (Did("as_pyobject") /\ Len(inp.kwargs) >= 1) =>
        \/ cv.outcome = "returned" /\ cv.out # PyNULL /\ cv.out.t = "dict"
        \/ cv.outcome = "threw"

\* The part of C9 the code keeps whatever Py_BuildValue did with its
\* arguments: what returns is the non-null pointer Py_BuildValue gave, and a
\* null from Py_BuildValue is reported once and thrown.
C9_NullBuildThrows ==
    (Did("as_pyobject") /\ Len(inp.kwargs) >= 1) =>
        LET r == Py_BuildValue(cv.fmt, cv.cargs, inp.env.ok, inp.env.ub)
        IN  /\ cv.outcome = "returned" => (cv.out # PyNULL /\ cv.out = r.val)
            /\ r.st = "null" => (cv.outcome = "threw" /\ cv.prints = 1)
            /\ cv.outcome = "threw" => (r.st = "null" /\ cv.out = PyNULL)
            /\ r.st = "ok" => (cv.outcome = "returned" /\ cv.prints = 0)

\* C10: as_pylist gives a list as long as the range whose i-th entry is the
\* conversion of the i-th element, for vectors and lists alike; these are the
\* lists plot passes as its positional arguments.
ConvertedElems(range) == [i \in 1..Len(range.l) |-> value_overload(range.l[i])]

C10_ListOrder ==
    /\ Did("as_pylist") =>
        /\ cv.outcome = "returned" /\ cv.out.t = "list"
        /\ Len(cv.out.l) = Len(inp.x.l)
        /\ \A i \in 1..Len(inp.x.l) : cv.out.l[i] = value_overload(inp.x.l[i])
    /\ (Did("plot") /\ cv.calls # <<>>) =>
        cv.calls[1].args.l = <<V("list", 0, "", ConvertedElems(inp.x)),
                               V("list", 0, "", ConvertedElems(inp.y))>>

\* a std::list of two different elements was converted
C10_Witness ==
    /\ Did("as_pylist") /\ inp.x.s = "list" /\ Len(inp.x.l) = 2
    /\ inp.x.l[1] # inp.x.l[2]
    /\ cv.out.l = <<value_overload(inp.x.l[1]), value_overload(inp.x.l[2])>>
    /\ cv.out.l[1] # cv.out.l[2]

\* ======================================================= claims C11..C20
\* C11: set_image on an image of rows x cols values hands the foreign runtime
\* a list of exactly rows lists of exactly cols entries each, entry [i][j]
\* being the conversion of the image value at row i, column j.
C11_ImageRowMajor ==
    (Did("set_image") /\ Rectangular(inp.x) /\ cv.calls # <<>>) =>
        LET pydata == cv.calls[1].args.l[1]
            rows == Len(inp.x.l)
            cols == IF rows = 0 THEN 0 ELSE Len(inp.x.l[1].l)
        IN  /\ pydata.t = "list" /\ Len(pydata.l) = rows
            /\ \A i \in 1..rows :
                /\ pydata.l[i].t = "list" /\ Len(pydata.l[i].l) = cols
                /\ \A j \in 1..cols : pydata.l[i].l[j] = value_overload(inp.x.l[i].l[j])

\* a 2 x 2 image that differs from its transpose was shown
C11_Witness ==
    /\ Did("set_image") /\ cv.calls # <<>> /\ cv.outcome = "returned"
    /\ Len(inp.x.l) = 2 /\ Rectangular(inp.x) /\ Len(inp.x.l[1].l) = 2
    /\ inp.x.l[1].l[2] # inp.x.l[2].l[1]
    /\ cv.calls[1].f.s = "imshow"

\* C12: at every invocation site, when the attribute lookup or the
\* construction of the positional arguments failed, no foreign call is
\* attempted and the operation returns reporting failure.
InvocationSites == {"plot", "bar", "set_x_ticks", "set_y_ticks", "add_legend"}

C12_ShortCircuit ==
    (pc = "done" /\ cv.op \in InvocationSites /\ ~(inp.env.attr /\ inp.env.args)) =>
        /\ cv.calls = <<>>
        /\ cv.outcome = "returned"
        /\ ~cv.res

\* What the code keeps of C12: plot and bar test both handles before the call.
C12_PlotBarShortCircuit ==
    (pc = "done" /\ cv.op \in {"plot", "bar"} /\ ~(inp.env.attr /\ inp.env.args)) =>
        /\ cv.calls = <<>>
        /\ cv.outcome = "returned"
        /\ ~cv.res

\* the foreign operations of one plot or bar call without kwargs that fail
\* under env: the attribute lookup, the argument build, and the call when it
\* is reached
FailingOperations(env) ==
    (IF env.attr THEN 0 ELSE 1) + (IF env.args THEN 0 ELSE 1)
        + (IF env.attr /\ env.args /\ ~env.call THEN 1 ELSE 0)

\* C13: within one plot call the error notification fires exactly once for
\* each failing foreign operation (attribute lookup, argument build, call):
\* never zero times and never twice.
C13_NotifiedOnce ==
    (Did("plot") /\ inp.kwargs = <<>>) => cv.prints = FailingOperations(inp.env)

\* What the code keeps of C13: no failure is silent, and nothing is reported
\* when nothing failed.
C13_NeverSilent ==
    (pc = "done" /\ cv.op \in {"plot", "bar"} /\ inp.kwargs = <<>>) =>
        /\ cv.prints >= FailingOperations(inp.env)
        /\ FailingOperations(inp.env) = 0 => cv.prints = 0

\* C19: plot returns true exactly when the attribute lookup, the construction
\* of the positional arguments and the foreign call all gave a non-null
\* result, and false in every other case in which it returns.
C19_PlotResult ==
    (Did("plot") /\ cv.outcome = "returned") =>
        /\ cv.res <=> (inp.env.attr /\ inp.env.args /\ inp.env.call)
        /\ cv.res <=> (cv.calls # <<>> /\ cv.out # PyNULL)

\* a plot with kwargs that reached the foreign call, was refused by it and
\* returned false
C19_Witness ==
    /\ Did("plot") /\ cv.outcome = "returned" /\ ~cv.res
    /\ inp.env.attr /\ inp.env.args /\ ~inp.env.call
    /\ Len(cv.calls) = 1 /\ Len(inp.kwargs) = 1

\* C15: a bar call whose x and y differ in length hands both lists to the
\* foreign runtime at their original lengths, and when the foreign call
\* rejects them the operation reports the error once and returns false; it
\* does not crash.
C15_BarMismatch ==
    (Did("bar") /\ Len(inp.x.l) # Len(inp.y.l) /\ cv.calls # <<>>) =>
        /\ cv.calls[1].f.s = "bar"
        /\ cv.calls[1].args.l = <<V("list", 0, "", ConvertedElems(inp.x)),
                                  V("list", 0, "", ConvertedElems(inp.y))>>
        /\ Len(cv.calls[1].args.l[1].l) = Len(inp.x.l)
        /\ Len(cv.calls[1].args.l[2].l) = Len(inp.y.l)
        /\ ~inp.env.call =>
            /\ cv.outcome = "returned" /\ ~cv.res
            /\ cv.prints = 1 /\ Len(cv.calls) = 1

\* two labels against three heights, labelled, refused by the foreign call
C15_Witness ==
    /\ Did("bar") /\ Len(inp.x.l) = 2 /\ Len(inp.y.l) = 3
    /\ has_key(inp.kwargs, "label")
    /\ Len(cv.calls) = 1 /\ ~inp.env.call
    /\ cv.outcome = "returned" /\ ~cv.res /\ cv.prints = 1

C14_PlotReportsAndReturns ==
    (Did("plot") /\ inp.kwargs = <<>> /\ ~(inp.env.attr /\ inp.env.call)) =>
        /\ cv.outcome = "returned" /\ ~cv.res /\ cv.prints >= 1

\* the operations that build temporary lists for one call
ListBuilders == {"plot", "bar", "set_x_ticks", "set_y_ticks"}

\* C20: when a call returns (or throws), every temporary list built for it
\* from a host range is fully released: its reference count, references the
\* foreign runtime kept for itself apart, is back to zero.
C20_ListsReleased ==
    (pc = "done" /\ cv.op \in ListBuilders /\ cv.outcome # "crashed") =>
        \A i \in DOMAIN cv.lists : cv.lists[i] = 0

\* What the code does instead: unless a type-mismatched build left undefined
\* counts behind, every such list is left with exactly the one reference that
\* release() handed out.
C20_OneReferenceLeft ==
    (pc = "done" /\ cv.op \in ListBuilders /\ cv.outcome # "crashed" /\ cv.out # Garbage
        /\ (cv.calls # <<>> => cv.calls[1].kw # Garbage)) =>
        /\ cv.outcome = "returned" => cv.lists # <<>>
        /\ \A i \in DOMAIN cv.lists : cv.lists[i] = 1

\* C16: creating a figure raises the number of open foreign figures by exactly
\* one; close() on it returns true and lowers the number by exactly one, so
\* that after a create followed by close the number is what it was before the
\* create.
C16_CreateClose ==
    /\ (flog.op = "figure" /\ flog.r.outcome = "returned") =>
        (flog.r.res /\ flog.after = flog.before + 1)
    /\ (flog.op = "close" /\ flog.wasOpen) =>
        (flog.r.outcome = "returned" /\ flog.r.res /\ flog.after = flog.before - 1)
    /\ (flog.op = "close" /\ flog.fresh) =>
        (flog.wasOpen /\ flog.r.res /\ flog.after = flog.createdAt)

\* a figure created while two others were open is closed right away; its
\* number is not 0
C16_Witness ==
    /\ flog.op = "close" /\ flog.fresh /\ flog.r.res
    /\ flog.createdAt = 2 /\ flog.before = 3 /\ flog.after = 2
    /\ \E f \in FigSlots : figs[f].st = "live" /\ figs[f].id = 2

\* C17: add_colorbar throws and makes no foreign call whenever no earlier
\* set_image on that axis returned true; after a set_image that returned true
\* it does not throw.
C17_ColorbarNeedsImage ==
    (flog.op = "add_colorbar" /\ flog.axis >= 0) =>
        /\ ~flog.shown => (flog.r.outcome = "threw" /\ flog.r.calls = <<>>)
        /\ flog.shown => flog.r.outcome # "threw"
        /\ flog.shown <=> flog.preImage # NoImage

\* add_colorbar after a set_image that returned true although imshow gave no
\* result: it does not throw, it returns false
C17_Witness ==
    /\ flog.op = "add_colorbar" /\ flog.via = "Axis" /\ flog.shown
    /\ flog.preImage = PyNULL
    /\ flog.r.outcome = "returned" /\ ~flog.r.res

\* C18: on a figure with more than one axis every convenience operation of
\* Figure throws and makes no foreign call; on a single-axis figure it gives
\* what the same operation gives on the axis at location (0, 0).
C18_Convenience ==
    (flog.via = "Figure" /\ flog.op \in ConvenienceOps) =>
        /\ flog.count > 1 => (flog.r.outcome = "threw" /\ flog.r.calls = <<>>)
        /\ flog.count = 1 =>
            /\ flog.axis = Figure_at([ny |-> 1, nx |-> 1], <<0, 0>>)
            /\ flog.r = Outcome(Figure_at_call(
                            Cur, [ny |-> 1, nx |-> 1, images |-> <<flog.preImage>>],
                            <<0, 0>>, flog.op, flog.env))

\* a convenience operation on a figure of two axes: thrown, nothing called
C18_Witness ==
    /\ flog.via = "Figure" /\ flog.op = "add_legend" /\ flog.count = 2
    /\ flog.r.outcome = "threw" /\ flog.r.calls = <<>>

\* ======================================================= claims C21..C30
\* C21: every element conversion of as_pylist hands the list slot a reference
\* that was acquired for it, for every scalar kind: when as_pylist returns, the
\* slots have taken over exactly as many references as the conversions
\* acquired, so that no foreign object (the boolean singletons included) loses
\* a reference it never gave.
C21_ValueOwnsReference ==
    (Did("as_pylist") /\ cv.outcome = "returned") => cv.stolen = cv.acquired

\* the balance holds for the ranges without a boolean, and every boolean
\* element costs its singleton one reference
C21_BooleansUnbalanced ==
    (Did("as_pylist") /\ cv.outcome = "returned") =>
        /\ cv.stolen = Len(inp.x.l)
        /\ cv.stolen - cv.acquired =
              Cardinality({i \in 1..Len(inp.x.l) : inp.x.l[i].kind = "bool"})


\* C22: whatever the interleaving of figure creation, close() and destruction,
\* a close() (explicit or by the destructor) never closes the foreign figure of
\* another live Figure object.
C22_ClosesOnlyOwn ==
    flog.op \in {"close", "dtor"} => flog.victims = {}

\* a Figure closes the foreign figure of another one only after its own was
\* closed and its number was given to the other; a Figure whose foreign figure
\* is still open closes no other
C22_OnlyStaleIdsCloseOthers ==
    (flog.op \in {"close", "dtor"} /\ flog.victims # {}) =>
        /\ ~flog.pre.mine
        /\ \A g \in flog.victims : flog.pre.id \notin flog.openAfter

\* C23: when a public operation returns, with a result or with a failure
\* result, the error indicator of the foreign runtime is clear, whichever of its
\* foreign sub-operations failed.
C23_ErrorCleared ==
    (flog.via \in {"MPLWrapper", "Figure", "Axis"} /\ flog.r.outcome = "returned") => ~flog.r.err

\* add_colorbar found no colorbar attribute: it reported the error, returned
\* false and left the indicator clear
C23_Witness ==
    /\ flog.op = "add_colorbar" /\ ~flog.env.attr /\ flog.preImage # NoImage
    /\ flog.r.outcome = "returned" /\ ~flog.r.res
    /\ flog.r.prints > 0 /\ ~flog.r.err

\* the same for the operations of Axis called on their own
C23_CallsErrorCleared ==
    (pc = "done" /\ cv.op \in {"plot", "bar", "set_image", "set_x_ticks", "set_y_ticks",
                              "add_legend"} /\ cv.outcome = "returned") => ~cv.err

\* C24: figure() gives the figure it creates the smallest non-negative number
\* for which pyplot has no open figure, and opens the foreign figure under
\* that number; no two Figure objects whose foreign figures are open have the
\* same number.
C24_SmallestUnusedId ==
    /\ (flog.op = "figure" /\ flog.r.outcome = "returned") =>
        /\ figs[flog.fig].id >= 0
        /\ figs[flog.fig].id \notin flog.openBefore
        /\ \A n \in 0..(figs[flog.fig].id - 1) : n \in flog.openBefore
        /\ flog.openAfter = flog.openBefore \cup {figs[flog.fig].id}
        /\ PyDict_GetItem(flog.r.calls[1].given, PyUnicode_FromString("num"))
              = PyLong_FromLong(figs[flog.fig].id)
    /\ \A f \in LifeSlots, g \in LifeSlots :
        (f # g /\ figs[f].st = "live" /\ figs[g].st = "live" /\ figs[f].mine /\ figs[g].mine)
            => figs[f].id # figs[g].id

\* a figure is created while only figure 1 is open, the figure of the other
\* live Figure object: it gets the number 0
C24_Witness ==
    /\ flog.op = "figure" /\ flog.r.outcome = "returned"
    /\ flog.openBefore = {1} /\ figs[flog.fig].id = 0 /\ flog.openAfter = {0, 1}
    /\ \E g \in LifeSlots : g # flog.fig /\ figs[g].st = "live" /\ figs[g].mine /\ figs[g].id = 1

\* C25: figure(ny, nx) throws, without calling pyplot and without opening a
\* foreign figure, when ny or nx is zero; a Figure it returns for ny, nx >= 1
\* holds exactly ny*nx axes, the axis of row r and column c of the grid at
\* index r*nx + c; and the grid and the axes of a Figure stay as they are for
\* as long as it lives.
C25_Created ==
    /\ (flog.op = "figure" /\ (flog.ny = 0 \/ flog.nx = 0)) =>
        /\ flog.r.outcome = "threw" /\ flog.r.calls = <<>>
        /\ flog.openAfter = flog.openBefore
        /\ figs[flog.fig].st # "live"
    /\ (flog.op = "figure" /\ flog.ny >= 1 /\ flog.nx >= 1 /\ flog.r.outcome = "returned") =>
        /\ figs[flog.fig].ny = flog.ny /\ figs[flog.fig].nx = flog.nx
        /\ \A r \in 0..(flog.ny - 1), c \in 0..(flog.nx - 1) :
              figs[flog.fig].axes[r * flog.nx + c + 1] = GridAxis(r, c)
    /\ \A f \in LifeSlots :
        figs[f].st = "live" => Len(figs[f].axes) = figs[f].ny * figs[f].nx

C25_FigureGrid ==
    /\ []C25_Created
    /\ [][\A f \in LifeSlots :
            (figs[f].st = "live" /\ figs'[f].st = "live") =>
                /\ figs'[f].axes = figs[f].axes
                /\ figs'[f].ny = figs[f].ny /\ figs'[f].nx = figs[f].nx]_vars

\* a figure of two rows and two columns was created and another operation was
\* made on it since
C25_Witness ==
    /\ flog.op \in {"at", "save_to", "close"}
    /\ figs[flog.fig].st = "live" /\ figs[flog.fig].ny = 2 /\ figs[flog.fig].nx = 2
    /\ figs[flog.fig].axes = <<GridAxis(0, 0), GridAxis(0, 1), GridAxis(1, 0), GridAxis(1, 1)>>

\* C26: fig.at({row, col}) throws when row >= ny or col >= nx; otherwise it
\* returns the axis at index row*nx + col of _axes, an index within
\* [0, ny*nx), and different locations within the grid give different axes.
C26_AxisAt ==
    flog.op = "at" =>
        /\ flog.r.outcome = "threw" <=> (flog.row >= flog.pre.ny \/ flog.col >= flog.pre.nx)
        /\ flog.r.outcome # "crashed"
        /\ flog.r.outcome = "returned" =>
            /\ Figure_at(flog.pre, <<flog.row, flog.col>>) = flog.row * flog.pre.nx + flog.col
            /\ Figure_at(flog.pre, <<flog.row, flog.col>>) >= 0
            /\ Figure_at(flog.pre, <<flog.row, flog.col>>) < flog.pre.ny * flog.pre.nx
            /\ \A r \in 0..(flog.pre.ny - 1), c \in 0..(flog.pre.nx - 1) :
                  <<r, c>> # <<flog.row, flog.col>> =>
                      /\ Figure_at(flog.pre, <<r, c>>) # Figure_at(flog.pre, <<flog.row, flog.col>>)
                      /\ Figure_at(flog.pre, <<r, c>>) \in 0..(Len(flog.pre.axes) - 1)
                      /\ flog.pre.axes[Figure_at(flog.pre, <<r, c>>) + 1]
                            # flog.pre.axes[Figure_at(flog.pre, <<flog.row, flog.col>>) + 1]

\* the axis of row 1, column 0 of a figure of two rows and two columns: index 2
C26_Witness ==
    /\ flog.op = "at" /\ flog.r.outcome = "returned"
    /\ flog.pre.ny = 2 /\ flog.pre.nx = 2 /\ flog.row = 1 /\ flog.col = 0
    /\ Figure_at(flog.pre, <<1, 0>>) = 2

\* C27: the size query of a vector-of-vectors image gives (0, 0) for an empty
\* image and else (rows, length of the first row), and a ragged image is
\* rejected at conversion time: set_image ends the process in the failed
\* assertion and hands nothing to the foreign runtime.
C27_RaggedRejected ==
    /\ (Did("set_image") /\ ImageSize_get(inp.x, inp.env.ndebug).st = "ok") =>
        ImageSize_get(inp.x, inp.env.ndebug).size =
            IF Len(inp.x.l) = 0 THEN <<0, 0>> ELSE <<Len(inp.x.l), Len(inp.x.l[1].l)>>
    /\ (Did("set_image") /\ ~Rectangular(inp.x)) =>
        (cv.outcome = "crashed" /\ cv.calls = <<>>)

\* some row is shorter than the first one
ShortRow(image) == \E i \in 1..Len(image.l) : Len(image.l[i].l) < Len(image.l[1].l)

\* C27 as the code has it: the check of the rows is an assert.  Where
\* assertions are compiled in, a ragged image ends the process before anything
\* is converted.  With NDEBUG the size is reported unchecked: a row shorter
\* than the first makes the conversion throw (std::out_of_range of at()), and
\* an image whose other rows are all longer is converted, every row cut to the
\* length of the first.
C27_RaggedAsserted ==
    /\ (Did("set_image") /\ ImageSize_get(inp.x, inp.env.ndebug).st = "ok") =>
        ImageSize_get(inp.x, inp.env.ndebug).size =
            IF Len(inp.x.l) = 0 THEN <<0, 0>> ELSE <<Len(inp.x.l), Len(inp.x.l[1].l)>>
    /\ (Did("set_image") /\ ~Rectangular(inp.x) /\ ~inp.env.ndebug) =>
        (cv.outcome = "crashed" /\ cv.calls = <<>>)
    /\ (Did("set_image") /\ ~Rectangular(inp.x) /\ inp.env.ndebug /\ inp.env.args) =>
        /\ cv.outcome # "crashed"
        /\ cv.outcome = "threw" <=> ShortRow(inp.x)
        /\ cv.outcome = "threw" => cv.calls = <<>>
        /\ (cv.outcome = "returned" /\ cv.calls # <<>>) =>
            /\ Len(cv.calls[1].args.l[1].l) = Len(inp.x.l)
            /\ \A i \in 1..Len(inp.x.l) :
                  cv.calls[1].args.l[1].l[i].l =
                      [j \in 1..Len(inp.x.l[1].l) |-> value_overload(inp.x.l[i].l[j])]

\* an image of a row of one value and a row of two in a build with NDEBUG:
\* imshow received two rows of one value each
C27_Witness ==
    /\ Did("set_image") /\ inp.env.ndebug /\ ~Rectangular(inp.x)
    /\ Len(inp.x.l) = 2 /\ Len(inp.x.l[1].l) = 1 /\ Len(inp.x.l[2].l) = 2
    /\ cv.outcome = "returned" /\ cv.res /\ Len(cv.calls) = 1
    /\ cv.calls[1].f.s = "imshow"
    /\ Len(cv.calls[1].args.l[1].l[2].l) = 1

\* the vector of the int values 0, ..., n - 1
Indices(n) == Host("range", 0, "vector", [i \in 1..n |-> Host("int", i - 1, "", <<>>)])

\* the state in which the call of inp started
CallStart == [Cur EXCEPT !.rt = "uninit", !.inits = 0, !.called = FALSE]

\* C28: plot(y, kwargs) and bar(y, kwargs) do what plot(x, y, kwargs) and
\* bar(x, y, kwargs) do for x = 0, 1, ..., n-1, n the length of y: the same
\* foreign calls with the same arguments, the same result and error reports;
\* the x list is as long as the y list and the kwargs are passed on unchanged.
C28_DefaultX ==
    /\ Did("plot_y") =>
        /\ cv = Result("plot_y", Axis_plot(CallStart, Indices(Len(inp.y.l)), inp.y,
                                           inp.kwargs, inp.env))
        /\ cv.calls # <<>> =>
            /\ Len(cv.calls[1].args.l[1].l) = Len(inp.y.l)
            /\ Len(cv.calls[1].args.l[2].l) = Len(inp.y.l)
            /\ \A i \in 1..Len(inp.y.l) : cv.calls[1].args.l[1].l[i] = PyLong_FromLong(i - 1)
            /\ \A i \in 1..Len(inp.kwargs) :
                  PyDict_GetItem(cv.calls[1].given, PyUnicode_FromString(inp.kwargs[i].key))
                      # PyNULL
    /\ Did("bar_y") =>
        /\ cv = Result("bar_y", Axis_bar(CallStart, Indices(Len(inp.y.l)), inp.y,
                                         inp.kwargs, inp.env))
        /\ cv.calls # <<>> =>
            /\ Len(cv.calls[1].args.l[1].l) = Len(inp.y.l)
            /\ \A i \in 1..Len(inp.y.l) : cv.calls[1].args.l[1].l[i] = PyLong_FromLong(i - 1)

\* plot(y, kwargs) for two values and one keyword argument: the foreign plot
\* was called with x = [0, 1]
C28_Witness ==
    /\ Did("plot_y") /\ Len(inp.y.l) = 2 /\ Len(inp.kwargs) = 1 /\ cv.res
    /\ Len(cv.calls) = 1
    /\ cv.calls[1].args.l[1].l = <<PyLong_FromLong(0), PyLong_FromLong(1)>>
    /\ cv.calls[1].given # EmptyDict

\* the elements of the kinds bool, std::size_t and int
IsIntegral(v) == v.kind \in {"bool", "uint", "int"}

\* the foreign value of the case named after the kind of v
KindCase(v) ==
    CASE v.kind = "bool" -> PyBool(v.n)
      [] v.kind = "uint" -> PyLong_FromSize_t(v.n)
      [] v.kind = "int" -> PyLong_FromLong(v.n)

\* C29: a bool is converted to the foreign True/False and not to an int, as
\* an element of a converted range and as the value of a keyword argument; an
\* unsigned integer goes through the unsigned case, a signed one through the
\* signed case.
C29_KindsKept ==
    /\ (Did("as_pylist") /\ cv.outcome = "returned") =>
        \A i \in 1..Len(inp.x.l) :
            IsIntegral(inp.x.l[i]) => cv.out.l[i] = KindCase(inp.x.l[i])
    /\ (Did("as_pyobject") /\ Len(inp.kwargs) = 1 /\ cv.outcome = "returned"
          /\ inp.kwargs[1].value.kind = "bool") =>
        /\ cv.out.t = "dict"
        /\ PyDict_GetItem(cv.out, PyUnicode_FromString(inp.kwargs[1].key))
               = PyBool(inp.kwargs[1].value.n)

\* What the code does: range elements go through the case of their kind (a
\* bool through the bool case, no reference taken); a bool keyword argument
\* is declared with the format unit "i", travels as an int and arrives as the
\* foreign int 0 or 1.
C29_BoolKwargIsInt ==
    /\ (Did("as_pylist") /\ cv.outcome = "returned") =>
        \A i \in 1..Len(inp.x.l) :
            IsIntegral(inp.x.l[i]) => cv.out.l[i] = KindCase(inp.x.l[i])
    /\ (Did("as_pyobject") /\ Len(inp.kwargs) = 1 /\ inp.kwargs[1].value.kind = "bool") =>
        /\ cv.fmt = <<"{", "s", ":", "i", "}">>
        /\ cv.cargs[2] = CArg("int", inp.kwargs[1].value.n, "", PyNULL)
        /\ cv.outcome = "returned" =>
               PyDict_GetItem(cv.out, PyUnicode_FromString(inp.kwargs[1].key))
                   = PyLong_FromLong(inp.kwargs[1].value.n)

\* C30: save_to(path) calls the foreign savefig with the path as its one
\* positional argument and with the keyword argument bbox_inches = "tight" it
\* built for the call, and returns true exactly when the call gave a result.
C30_SavefigTight ==
    (flog.op = "save_to" /\ flog.r.calls # <<>>) =>
        /\ Len(flog.r.calls) = 1
        /\ flog.r.calls[1].f.s = "savefig"
        /\ flog.r.calls[1].args.l = <<PyUnicode_FromString("out.png")>>
        /\ PyDict_GetItem(flog.r.calls[1].given, PyUnicode_FromString("bbox_inches"))
               = PyUnicode_FromString("tight")
        /\ flog.r.outcome = "returned" => (flog.r.res <=> flog.r.calls[1].out # PyNULL)

\* What the code does: the dictionary is built (a failure to build it throws
\* before the call), but savefig is called with the path alone and without
\* keyword arguments; the result is true exactly when the call gave a result.
C30_KeywordsDropped ==
    flog.op = "save_to" =>
        /\ flog.r.calls # <<>> =>
            /\ Len(flog.r.calls) = 1
            /\ flog.r.calls[1].f.s = "savefig"
            /\ flog.r.calls[1].args.l = <<PyUnicode_FromString("out.png")>>
            /\ flog.r.calls[1].kw = PyNULL /\ flog.r.calls[1].given = EmptyDict
            /\ flog.env.attr /\ flog.env.args /\ flog.env.ok
        /\ flog.r.outcome = "returned" =>
            /\ flog.r.res <=> (flog.r.calls # <<>> /\ flog.r.calls[1].out # PyNULL)
            /\ flog.r.res <=> (flog.env.attr /\ flog.env.call)
            /\ ~flog.r.err

============================================================================
